---- MODULE Spec2Model ----
(***************************************************************************)
(* A model of the Oberon-07 compiler for RISC-5 (Go port):                 *)
(*   ors  the scanner (position, error throttle of Mark),                  *)
(*   files  the byte-level readers and writers (WriteNum, ReadNum, ...),   *)
(*   orb  the symbol table with Export and Import of symbol files,         *)
(*   org  the code generator (constant folding, string pool),              *)
(*   orp  the parser's module() and Compile, and the driver cmd/oc.        *)
(* Each part has its own specification over the shared variables.          *)
(***************************************************************************)
EXTENDS Integers, Sequences, FiniteSets, TLC

VARIABLES
    ors,    \* the Scanner: pos, errPos, ErrCnt, the sink, and the history of Mark calls
    num,    \* files.WriteNum / files.ReadNum: the value written, the bytes, the value read
    fold,   \* org.DivOp: the operator, the two operand Items and the resulting Item
    orb,    \* the Base of the compilation: types, scopes, typTab
    org,    \* the Generator of the compilation
    prs,    \* the Parser of the compilation
    peer,   \* a second compiler instance (scanner, base, generator, parser)
    fs,     \* the file system: the symbol files and the object files
    drv     \* the driver cmd/oc: its arguments, the flag -s, the exit code

vars == <<ors, num, fold, orb, org, prs, peer, fs, drv>>

(***************************************************************************)
(* Bounds of the model.                                                    *)
(***************************************************************************)
\* source positions run from 0 to MaxPos
MaxPos == 12
\* at most MaxMarks calls of Mark in one compilation
MaxMarks == 26
\* the numbers -NumRange .. NumRange are among the sampled 32-bit values
NumRange == 130
\* the parser reads DeclLen characters for each declaration or heading
DeclLen == 8
\* two types are compared as far as TypeDepth levels of component types
TypeDepth == 5
\* at most MaxArgs files on the command line
MaxArgs == 2
\* at most MaxErrs syntax errors in one module
MaxErrs == 2
\* the constant operands of DIV and MOD run over -FoldRange .. FoldRange
FoldRange == 17
\* a token of the source text has TokLen characters
TokLen == 5
\* a source text has at most MaxTokens tokens
MaxTokens == 27
\* at most MaxDepth scopes are open above the universe
MaxDepth == 2
\* a scope holds at most MaxObjs objects
MaxObjs == 2
\* at most MaxItems operands of an expression are pending at a time
MaxItems == 4
\* at most MaxCalls calls have their parameters being parsed at a time
MaxCalls == 1
\* no function is called when MaxRh registers are in use
MaxRh == 13
\* the statements of a text have at most MaxSyms symbols
MaxSyms == 5
\* a loop is followed for MaxSpin iterations that read nothing
MaxSpin == 2
\* the declarations of a text of declarations
MaxDecls == 3
\* identifiers have MinIdChars to MaxIdChars characters
MinIdChars == 28
MaxIdChars == 34
\* a number literal goes on for up to MaxExtend digits
MaxExtend == 8
\* a text of the scanner has up to MaxText characters
MaxText == 9
\* a record has up to MaxRecSize bytes
MaxRecSize == 520
\* a module lists ManyVars exported variables and declares up to MaxMore
\* objects after them
ManyVars == 252
MaxMore == 4
\* a text declares up to MaxSigs procedure types and procedures
MaxSigs == 2
\* a statement is read in up to MaxLinkOps operations, with up to MaxOperands
\* operands that wait for their operator
MaxLinkOps == 9
MaxOperands == 3
\* the code of a module is NearEnd words short of maxCode
NearEnd == 60
\* a text has up to MaxPoolOps expressions with string literals
MaxPoolOps == 4
\* an expression with calls is read in up to MaxCallOps operations, with
\* up to MaxCallRegs registers in use and calls nested MaxCallDepth deep
MaxCallOps == 8
MaxCallRegs == 3
MaxCallDepth == 2
\* the texts that do not begin a module have up to MaxFirstText characters
MaxFirstText == 5

\* e with x bound to the value v, which is computed once
Bind(v, e(_)) == CHOOSE y \in {e(x) : x \in {v}} : TRUE

(***************************************************************************)
(* 32-bit integers.                                                        *)
(***************************************************************************)
Two16 == 65536
MaxInt32 == 2147483647
MinInt32 == -2147483647 - 1

\* a 32-bit word as its two 16-bit halves <<hi, lo>>; of a signed value x
\* (two's complement) and back
Word(x) == <<(x \div Two16) % Two16, x % Two16>>
Signed(w) == (IF w[1] >= 32768 THEN w[1] - Two16 ELSE w[1]) * Two16 + w[2]

\* Go's int32 addition, which wraps around
AddInt32(a, b) ==
    Bind(Word(a), LAMBDA wa :
    Bind(Word(b), LAMBDA wb :
    LET lo == wa[2] + wb[2]
        hi == wa[1] + wb[1] + (lo \div Two16)
    IN Signed(<<hi % Two16, lo % Two16>>)))

(***************************************************************************)
(* 32-bit unsigned arithmetic on halves <<hi, lo>>.                        *)
(***************************************************************************)
\* uint32(w + c) for a small c >= 0
AddU32(w, c) ==
    LET lo == w[2] + c
    IN <<(w[1] + (lo \div Two16)) % Two16, lo % Two16>>

\* bits.RotateLeft32(w, -k) for 0 < k < 16: rotation to the right by k bits
RotateRight32(w, k) ==
    LET m == 2 ^ k
        u == 2 ^ (16 - k)
    IN <<(w[1] \div m) + (w[2] % m) * u, (w[2] \div m) + (w[1] % m) * u>>

(***************************************************************************)
(* files: numbers of variable length.                                      *)
(***************************************************************************)
RECURSIVE WriteNumLoose(_)
\* a variant of WriteNum whose loop stops one value too late at the top
WriteNumLoose(x) ==
    IF x < -64 \/ x > 64
    THEN <<((x % 256) % 128) + 128>> \o WriteNumLoose(x \div 128)
    ELSE <<(x % 256) % 128>>

RECURSIVE WriteNum(_)
\* the bytes files.WriteNum(w, x) appends to w
WriteNum(x) ==
    IF x < -64 \/ x >= 64
    THEN <<((x % 256) % 128) + 128>> \o WriteNum(x \div 128)
    ELSE <<(x % 256) % 128>>

RECURSIVE ReadNumLoop(_, _, _, _)
\* the loop of files.ReadNum from index i of buf with the accumulator y (a
\* uint32 in halves) and n; ok is FALSE when ReadByte meets the end (a panic)
ReadNumLoop(buf, i, y, n) ==
    IF i > Len(buf) THEN [ok |-> FALSE, x |-> 0, next |-> i]
    ELSE LET b == buf[i] IN
         IF b >= 128
         THEN ReadNumLoop(buf, i + 1, RotateRight32(AddU32(y, b - 128), 7), n - 7)
         ELSE [ok |-> TRUE,
               x |-> IF n <= 4
                     THEN Signed(RotateRight32(AddU32(y, b % 16), 4))
                     ELSE Signed(RotateRight32(AddU32(y, b), 7)) \div (2 ^ (n - 7)),
               next |-> i + 1]

\* files.ReadNum(r) with r at index i of buf: the number and the next index
ReadNum(buf, i) == ReadNumLoop(buf, i, <<0, 0>>, 32)

\* the sampled 32-bit values: the small ones, and the powers of two with their
\* neighbours, of both signs, up to the ends of the range
NumSamples ==
    (-NumRange .. NumRange)
    \cup UNION {{2 ^ k - 1, 2 ^ k, 2 ^ k + 1, -(2 ^ k) - 1, -(2 ^ k), -(2 ^ k) + 1} : k \in 7 .. 30}
    \cup {MaxInt32, MaxInt32 - 1, MinInt32, MinInt32 + 1}

\* what follows the number in the stream
NumTails == {<<>>, <<133, 1>>}

(***************************************************************************)
(* ors: the scanner's error reporting.                                     *)
(***************************************************************************)
Messages == {"err"}

\* NewScanner: all fields zero. nMarks, markPos and markMsg record the calls
\* of Mark (their number, the position and message of the most recent one);
\* sinkN and sinkPos are the number of messages written to w and the
\* position stamped on the last one.
NewScanner ==
    [pos |-> 0, errPos |-> 0, ErrCnt |-> 0, eot |-> FALSE, Id |-> <<>>, Ival |-> 0,
     sinkN |-> 0, sinkPos |-> -1,
     nMarks |-> 0, markPos |-> -1, markMsg |-> ""]

Pos(s) == s.pos - 1

\* a variant of Mark that stops counting at 25
MarkCapped(s, msg) ==
    LET p == Pos(s)
    IN
    Bind(p > s.errPos /\ s.ErrCnt < 25, LAMBDA w :
       [s EXCEPT !.sinkN = IF w THEN @ + 1 ELSE @,
                 !.sinkPos = IF w THEN p ELSE @,
                 !.ErrCnt = IF @ < 25 THEN @ + 1 ELSE @,
                 !.errPos = p + 4,
                 !.nMarks = @ + 1, !.markPos = p, !.markMsg = msg])

\* a variant of Mark in which a suppressed call leaves the window alone
MarkKeepWindow(s, msg) ==
    LET p == Pos(s)
    IN
    Bind(p > s.errPos /\ s.ErrCnt < 25, LAMBDA w :
       [s EXCEPT !.sinkN = IF w THEN @ + 1 ELSE @,
                 !.sinkPos = IF w THEN p ELSE @,
                 !.ErrCnt = @ + 1,
                 !.errPos = IF w THEN p + 4 ELSE @,
                 !.nMarks = @ + 1, !.markPos = p, !.markMsg = msg])

\* a variant of Mark that writes whatever the count is
MarkNoCap(s, msg) ==
    LET p == Pos(s)
    IN
    Bind(p > s.errPos, LAMBDA w :
       [s EXCEPT !.sinkN = IF w THEN @ + 1 ELSE @,
                 !.sinkPos = IF w THEN p ELSE @,
                 !.ErrCnt = @ + 1,
                 !.errPos = p + 4,
                 !.nMarks = @ + 1, !.markPos = p, !.markMsg = msg])

Mark(s, msg) ==
    LET p == Pos(s)
    IN
    Bind(p > s.errPos /\ s.ErrCnt < 25, LAMBDA w :
       [s EXCEPT !.sinkN = IF w THEN @ + 1 ELSE @,
                 !.sinkPos = IF w THEN p ELSE @,
                 !.ErrCnt = @ + 1,
                 !.errPos = p + 4,
                 !.nMarks = @ + 1, !.markPos = p, !.markMsg = msg])

nextCh(s) == [s EXCEPT !.pos = @ + 1]

(***************************************************************************)
(* orb: objects and types.                                                 *)
(* Types live in a table b.types and are named by their index there (0 is  *)
(* nil). The objects of a scope are a sequence in the order of the Next    *)
(* links; b.scopes is the stack of open scopes with TopScope last and the  *)
(* universe first. An object is named by a handle [d, i]: the i-th object  *)
(* of scope d, or for d < 0 the object of the module at index -d of the    *)
(* module scope that stands i places from the end of the module's list.    *)
(* A record type's Dsc holds its own fields, newest first; the fields of   *)
(* the base types follow them in the list (FullDsc).                       *)
(***************************************************************************)
VersionKey == 1
maxTypTab == 64

ClassHead == 0
ClassConst == 1
ClassVar == 2
ClassPar == 3
ClassFld == 4
ClassTyp == 5
ClassSProc == 6
ClassSFunc == 7
ClassMod == 8

FormByte == 1
FormBool == 2
FormChar == 3
FormInt == 4
FormReal == 5
FormSet == 6
FormPointer == 7
FormNilTyp == 8
FormNoTyp == 9
FormProc == 10
FormString == 11
FormArray == 12
FormRecord == 13

NilObj == [d |-> 0, i |-> 0]

\* &Object{Name: id, Class: class}; an Ident is the sequence of its bytes
Object(id, class) ==
    [Class |-> class, ExNo |-> 0, Expo |-> FALSE, Rdo |-> FALSE, Lev |-> 0,
     Name |-> id, OrgName |-> <<>>, Type |-> 0, Val |-> 0, Dsc |-> <<>>]

\* &Type{Form: form, Size: size}
Type(form, size) ==
    [Form |-> form, Ref |-> 0, Mno |-> 0, NOfPar |-> 0, Len |-> 0, Dsc |-> <<>>,
     TypObj |-> NilObj, Base |-> 0, Size |-> size]

\* the indices of the predeclared types in b.types
ByteType == 1
BoolType == 2
CharType == 3
IntType == 4
RealType == 5
SetType == 6
NilType == 7
NoType == 8
StrType == 9

\* Base.newType(ref, form, size)
newType(ref, form, size) == [Type(form, size) EXCEPT !.Ref = ref]

\* the type names Base.enter puts into the universe (the standard procedures
\* and functions entered beside them play no part here)
IdINTEGER == <<73, 78, 84, 69, 71, 69, 82>>
IdLONGINT == <<76, 79, 78, 71, 73, 78, 84>>
IdREAL == <<82, 69, 65, 76>>
IdLONGREAL == <<76, 79, 78, 71, 82, 69, 65, 76>>
IdCHAR == <<67, 72, 65, 82>>
IdBYTE == <<66, 89, 84, 69>>
IdBOOLEAN == <<66, 79, 79, 76, 69, 65, 78>>
IdSET == <<83, 69, 84>>

UniverseTypes ==
    << <<IdINTEGER, IntType>>, <<IdLONGINT, IntType>>, <<IdREAL, RealType>>,
       <<IdLONGREAL, RealType>>, <<IdCHAR, CharType>>, <<IdBYTE, ByteType>>,
       <<IdBOOLEAN, BoolType>>, <<IdSET, SetType>> >>

NewBase ==
    Bind(<< newType(FormByte, FormInt, 1), newType(FormBool, FormBool, 1),
            newType(FormChar, FormChar, 1), newType(FormInt, FormInt, 4),
            newType(FormReal, FormReal, 4), newType(FormSet, FormSet, 4),
            newType(FormNilTyp, FormNilTyp, 4), newType(FormNoTyp, FormNoTyp, 4),
            newType(FormString, FormString, 8) >>, LAMBDA types0 :
    Bind([k \in 1 .. Len(UniverseTypes) |->
             [Object(UniverseTypes[k][1], ClassTyp) EXCEPT !.Type = UniverseTypes[k][2]]], LAMBDA univ :
    \* enter: the type's TypObj is the object entered last for it, which
    \* stands first in the list
    LET lastOf(t) == CHOOSE k \in 1 .. Len(univ) :
                        /\ univ[k].Type = t
                        /\ \A j \in 1 .. Len(univ) : univ[j].Type = t => k <= j
        named == {UniverseTypes[k][2] : k \in 1 .. Len(UniverseTypes)}
    IN [types |-> [t \in 1 .. Len(types0) |->
                      IF t \in named
                      THEN [types0[t] EXCEPT !.TypObj = [d |-> 1, i |-> lastOf(t)]]
                      ELSE types0[t]],
        scopes |-> <<univ>>,
        nOfMod |-> 0,
        ref |-> 0,
        typTab |-> [r \in 0 .. maxTypTab - 1 |->
                      IF \E t \in 1 .. Len(types0) : types0[t].Ref = r
                      THEN CHOOSE t \in 1 .. Len(types0) : types0[t].Ref = r
                      ELSE 0]]))

\* Base.Init
BaseInit(b) == [b EXCEPT !.scopes = <<b.scopes[1]>>, !.nOfMod = 1]

\* Base.OpenScope, Base.CloseScope
OpenScope(b) == [b EXCEPT !.scopes = Append(@, <<>>)]
CloseScope(b) == [b EXCEPT !.scopes = SubSeq(@, 1, Len(@) - 1)]

Top(b) == Len(b.scopes)
TopScope(b) == b.scopes[Top(b)]

\* the object a handle names
Deref(b, h) ==
    IF h.d > 0 THEN b.scopes[h.d][h.i]
    ELSE Bind(b.scopes[2][-h.d].Dsc, LAMBDA dsc :
            dsc[Len(dsc) + 1 - h.i])

\* the index of the first object called id in the list objs, 0 if there is none
IndexOf(objs, id) ==
    IF \E k \in 1 .. Len(objs) : objs[k].Name = id
    THEN CHOOSE k \in 1 .. Len(objs) :
            objs[k].Name = id /\ \A j \in 1 .. k - 1 : objs[j].Name # id
    ELSE 0

\* a variant of NewObj that does not search the list
NewObjAppends(c, id, class) ==
    [c |-> [c EXCEPT !.orb.scopes[Top(c.orb)] = Append(@, Object(id, class))],
     obj |-> [d |-> Top(c.orb), i |-> Len(TopScope(c.orb)) + 1]]

\* Base.NewObj(id, class) in the compiler state c: the state afterwards and
\* the handle of the object
NewObj(c, id, class) ==
    LET b == c.orb
    IN
    Bind(IndexOf(TopScope(b), id), LAMBDA k :
       IF k = 0
       THEN [c |-> [c EXCEPT !.orb.scopes[Top(b)] = Append(@, Object(id, class))],
             obj |-> [d |-> Top(b), i |-> Len(TopScope(b)) + 1]]
       ELSE [c |-> [c EXCEPT !.ors = Mark(@, "mult def")],
             obj |-> [d |-> Top(b), i |-> k]])

RECURSIVE ThisObjFrom(_, _, _)
ThisObjFrom(b, d, id) ==
    IF d = 0 THEN NilObj
    ELSE Bind(IndexOf(b.scopes[d], id), LAMBDA k :
            IF k # 0 THEN [d |-> d, i |-> k] ELSE ThisObjFrom(b, d - 1, id))

\* Base.ThisObj() with the scanner's Id = id: the handle found, or NilObj
ThisObj(b, id) == ThisObjFrom(b, Top(b), id)

RECURSIVE FullDsc(_, _)
\* the list t.Dsc of a record type: its own fields, then those of its bases
FullDsc(b, t) ==
    IF t = 0 THEN <<>>
    ELSE b.types[t].Dsc \o (IF b.types[t].Form = FormRecord THEN FullDsc(b, b.types[t].Base) ELSE <<>>)

(***************************************************************************)
(* files: bytes, 32-bit words and strings.                                 *)
(***************************************************************************)
\* the four bytes of files.WriteInt(w, x), little-endian
IntBytes(x) ==
    Bind(Word(x), LAMBDA w :
       <<w[2] % 256, w[2] \div 256, w[1] % 256, w[1] \div 256>>)

\* the int32 files.ReadInt reads from the four bytes at index i of buf
IntAt(buf, i) == Signed(<<buf[i + 3] * 256 + buf[i + 2], buf[i + 1] * 256 + buf[i]>>)

\* files.Read: a byte as a signed number
SignedByte(x) == IF x < 128 THEN x ELSE x - 256

\* a writer w = [buf, b, s]: the bytes written so far, the Base and the
\* scanner as the writing procedures leave them
WByte(w, x) == [w EXCEPT !.buf = Append(@, x % 256)]
WInt(w, x) == [w EXCEPT !.buf = @ \o IntBytes(x)]
WNum(w, x) == [w EXCEPT !.buf = @ \o WriteNum(x)]
WString(w, str) == [w EXCEPT !.buf = @ \o str \o <<0>>]

(***************************************************************************)
(* orb: Export.                                                            *)
(***************************************************************************)
RECURSIVE outType(_, _)
RECURSIVE outPar(_, _, _)
RECURSIVE outFields(_, _, _)
RECURSIVE findHiddenPointers(_, _, _)
RECURSIVE hiddenInFields(_, _, _, _)
RECURSIVE hiddenInArray(_, _, _, _)

\* Base.findHiddenPointers(w, typ, offset)
findHiddenPointers(w, typ, offset) ==
    LET T == w.b.types[typ]
    IN IF T.Form = FormPointer \/ T.Form = FormNilTyp
       THEN WNum(WByte(WByte(w, ClassFld), 0), offset)
       ELSE IF T.Form = FormRecord
       THEN hiddenInFields(w, FullDsc(w.b, typ), 1, offset)
       ELSE IF T.Form = FormArray
       THEN hiddenInArray(w, typ, 0, offset)
       ELSE w

\* its loop over the fields flds[k..] of a record
hiddenInFields(w, flds, k, offset) ==
    IF k > Len(flds) THEN w
    ELSE hiddenInFields(findHiddenPointers(w, flds[k].Type, flds[k].Val + offset),
                        flds, k + 1, offset)

\* its loop over the elements i.. of an array
hiddenInArray(w, typ, i, offset) ==
    LET T == w.b.types[typ]
    IN IF i >= T.Len THEN w
       ELSE hiddenInArray(findHiddenPointers(w, T.Base, w.b.types[T.Base].Size * i + offset),
                          typ, i + 1, offset)

\* a variant of outPar that writes the parameters first to last
outParForward(w, pars, n) ==
    IF n > 0
    THEN LET par == Head(pars)
         IN outPar(outType(WByte(WByte(w, par.Class), IF par.Rdo THEN 1 ELSE 0), par.Type),
                   Tail(pars), n - 1)
    ELSE w

\* Base.outPar(w, par, n) with par the head of the list pars
outPar(w, pars, n) ==
    IF n > 0
    THEN LET w1 == outPar(w, Tail(pars), n - 1)
             par == Head(pars)
         IN outType(WByte(WByte(w1, par.Class), IF par.Rdo THEN 1 ELSE 0), par.Type)
    ELSE w

\* the loop of outType over the own fields flds[k..] of a record
outFields(w, flds, k) ==
    IF k > Len(flds) THEN w
    ELSE LET fld == flds[k]
         IN outFields(IF fld.Expo
                      THEN WNum(outType(WString(WByte(w, ClassFld), fld.Name), fld.Type), fld.Val)
                      ELSE findHiddenPointers(w, fld.Type, fld.Val),
                      flds, k + 1)

\* Base.outType(w, t)
outType(w, t) ==
    LET T == w.b.types[t]
        obj == T.TypObj
    IN IF T.Ref > 0
       THEN WByte(w, -T.Ref)
       ELSE
         LET w1 == IF obj # NilObj
                   THEN [WByte(w, w.b.ref) EXCEPT !.b.types[t].Ref = w.b.ref, !.b.ref = @ + 1]
                   ELSE WByte(w, 0)
         IN
         Bind(WByte(w1, T.Form), LAMBDA w2 :
         Bind(IF T.Form = FormPointer THEN outType(w2, T.Base)
              ELSE IF T.Form = FormArray
              THEN WNum(WNum(outType(w2, T.Base), T.Len), T.Size)
              ELSE IF T.Form = FormRecord
              THEN Bind(IF T.Base # 0 THEN outType(w2, T.Base) ELSE outType(w2, NoType), LAMBDA wb :
                   LET we == IF obj # NilObj THEN WNum(wb, Deref(wb.b, obj).ExNo)
                             ELSE WByte(wb, 0)
                       wn == WNum(WNum(we, T.NOfPar), T.Size)
                   IN WByte(outFields(wn, T.Dsc, 1), 0))
              ELSE IF T.Form = FormProc
              THEN WByte(outPar(outType(w2, T.Base), T.Dsc, T.NOfPar), 0)
              ELSE w2, LAMBDA w3 :
            IF T.Mno > 0 /\ obj # NilObj
            THEN \* re-export, output name
                 Bind(TopScope(w3.b), LAMBDA mods :
                 Bind({k \in 1 .. Len(mods) : mods[k].Lev = T.Mno}, LAMBDA found :
                    IF found # {}
                    THEN Bind(mods[CHOOSE k \in found : \A j \in found : k <= j], LAMBDA mod :
                            WString(WInt(WString(w3, mod.OrgName), mod.Val), Deref(w3.b, obj).Name))
                    ELSE WByte([w3 EXCEPT !.s = Mark(@, "re-export not found")], 0)))
            ELSE WByte(w3, 0)))

RECURSIVE exportFixups(_, _, _)
\* the loop of Export over obj0 = objs[j..i-1]: the references of the pointer
\* types declared before the record objs[i] that point to it
exportFixups(w, i, j) ==
    Bind(TopScope(w.b), LAMBDA objs :
       IF j >= i THEN w
       ELSE LET T0 == w.b.types[objs[j].Type]
            IN exportFixups(IF T0.Form = FormPointer /\ T0.Base = objs[i].Type /\ T0.Ref > 0
                            THEN WByte(w, T0.Ref) ELSE w,
                            i, j + 1))

RECURSIVE exportObjects(_, _)
\* the loop of Export over the objects objs[i..] of the top scope
exportObjects(w, i) ==
    Bind(TopScope(w.b), LAMBDA objs :
       IF i > Len(objs) THEN w
       ELSE LET obj == objs[i]
            IN IF ~obj.Expo THEN exportObjects(w, i + 1)
               ELSE Bind(outType(WString(WByte(w, obj.Class), obj.Name), obj.Type), LAMBDA w1 :
                    Bind(w1.b.types[obj.Type], LAMBDA T :
                    LET w2 == IF obj.Class = ClassTyp
                              THEN WByte(IF T.Form = FormRecord THEN exportFixups(w1, i, 1) ELSE w1, 0)
                              ELSE IF obj.Class = ClassConst
                              THEN IF T.Form = FormProc THEN WNum(w1, obj.ExNo)
                                   ELSE IF T.Form = FormReal THEN WInt(w1, obj.Val)
                                   ELSE WNum(w1, obj.Val)
                              ELSE IF obj.Class = ClassVar THEN WNum(w1, obj.ExNo)
                              ELSE w1
                    IN exportObjects(w2, i + 1))))

RECURSIVE SumWords(_, _, _)
\* the checksum loop of Export: the wrapping sum of the int32 words lo..hi
\* of buf, added up in halves (the wrapping sum does not depend on the order)
SumWords(buf, lo, hi) ==
    IF lo > hi THEN 0
    ELSE IF lo = hi THEN IntAt(buf, 4 * lo - 3)
    ELSE LET mid == (lo + hi) \div 2
         IN AddInt32(SumWords(buf, lo, mid), SumWords(buf, mid + 1, hi))

\* a variant of the padding that adds nothing to a buffer already aligned
PadBytesNoneWhenAligned(n) == [k \in 1 .. ((4 - (n % 4)) % 4) |-> 0]

\* the zero bytes Export appends to a buffer of n bytes: the end mark, and
\* the padding to a multiple of 4
PadBytes(n) == [k \in 1 .. (4 - (n % 4)) |-> 0]

\* the symbol file Export builds in its buffer for the top scope of b, with
\* the key in place: the bytes, the key, the Base and the scanner afterwards
SymbolFile(b, s, modId) ==
    LET w0 == WByte(WString(WInt(WInt([buf |-> <<>>, b |-> [b EXCEPT !.ref = FormRecord + 1],
                                        s |-> s], 0), 0), modId), VersionKey)
    IN
    Bind(exportObjects(w0, 1), LAMBDA w1 :
    Bind(w1.buf \o PadBytes(Len(w1.buf)), LAMBDA buf :
    Bind(SumWords(buf, 1, Len(buf) \div 4), LAMBDA sum :
    LET key == IntBytes(sum)
    IN [buf |-> [k \in 1 .. Len(buf) |-> IF k \in 5 .. 8 THEN key[k - 4] ELSE buf[k]],
        sum |-> sum,
        b |-> [w1.b EXCEPT !.ref = maxTypTab,
                           !.typTab = [r \in 0 .. maxTypTab - 1 |->
                                          IF r >= FormRecord + 1 THEN 0 ELSE @[r]]],
        s |-> w1.s])))

\* a file is a sequence of bytes, or NoFile when it does not exist
NoFile == <<-1>>

\* an object file is kept by the fields of its header; the name of one that
\* does not exist is empty
NoObjFile ==
    [name |-> <<>>, key |-> 0, version |-> 0, PC |-> 0, strx |-> 0, nOfEnt |-> 0, entry |-> 0]

\* readKey(filename): the key of the symbol file sf; ReadInt panics on a
\* file of fewer than 8 bytes
readKey(sf) ==
    IF sf = NoFile THEN [key |-> 0, notExist |-> TRUE, panic |-> FALSE]
    ELSE IF Len(sf) < 8 THEN [key |-> 0, notExist |-> FALSE, panic |-> TRUE]
    ELSE [key |-> IntAt(sf, 5), notExist |-> FALSE, panic |-> FALSE]

\* a variant of Export that overwrites an existing symbol file whenever the
\* key has changed
ExportOverwrites(c, fsys, modId, newSF, io) ==
    Bind(SymbolFile(c.orb, c.ors, modId), LAMBDA f :
    Bind(readKey(fsys.smb[modId]), LAMBDA old :
    Bind([c EXCEPT !.orb = f.b, !.ors = f.s], LAMBDA c1 :
       IF old.panic THEN [c |-> c1, fs |-> fsys, key |-> 0, newSF |-> FALSE, panic |-> TRUE]
       ELSE IF old.notExist \/ f.sum # old.key
       THEN IF io = "fail"
            THEN [c |-> c1, fs |-> fsys, key |-> 0, newSF |-> FALSE, panic |-> TRUE]
            ELSE [c |-> c1, fs |-> [fsys EXCEPT !.smb[modId] = f.buf],
                  key |-> f.sum, newSF |-> TRUE, panic |-> FALSE]
       ELSE [c |-> c1, fs |-> fsys, key |-> f.sum, newSF |-> FALSE, panic |-> FALSE])))

\* Base.Export(modId, newSF) in the compiler state c with the files fsys:
\* the state and the files afterwards and the two results; io = "fail" makes
\* os.Create fail, and panic tells that Export ended in a panic
Export(c, fsys, modId, newSF, io) ==
    Bind(SymbolFile(c.orb, c.ors, modId), LAMBDA f :
    Bind(readKey(fsys.smb[modId]), LAMBDA old :
    Bind([c EXCEPT !.orb = f.b, !.ors = f.s], LAMBDA c1 :
       IF old.panic THEN [c |-> c1, fs |-> fsys, key |-> 0, newSF |-> FALSE, panic |-> TRUE]
       ELSE IF old.notExist \/ f.sum # old.key
       THEN IF newSF \/ old.notExist
            THEN IF io = "fail"
                 THEN [c |-> c1, fs |-> fsys, key |-> 0, newSF |-> FALSE, panic |-> TRUE]
                 ELSE [c |-> c1, fs |-> [fsys EXCEPT !.smb[modId] = f.buf],
                       key |-> f.sum, newSF |-> TRUE, panic |-> FALSE]
            ELSE [c |-> [c1 EXCEPT !.ors = Mark(@, "new symbol file inhibited")],
                  fs |-> fsys, key |-> f.sum, newSF |-> FALSE, panic |-> FALSE]
       ELSE [c |-> c1, fs |-> fsys, key |-> f.sum, newSF |-> FALSE, panic |-> FALSE])))

\* Mark(msg) on the scanner of the compiler instance c
MarkC(c, msg) == [c EXCEPT !.ors = Mark(@, msg)]

\* &orb.Type{...}: the state with the new type T, and its index
AllocType(c, T) ==
    [c |-> [c EXCEPT !.orb.types = Append(@, T)], typ |-> Len(c.orb.types) + 1]

(***************************************************************************)
(* orb: Import.  A reader r = [buf, i, c]: the bytes of the file, the      *)
(* index of the next byte, and the importing compiler instance.            *)
(***************************************************************************)
\* files.Read(r), files.ReadInt(r), files.ReadNum(r): the value, and the reader after it
RByte(r) == [x |-> SignedByte(r.buf[r.i]), r |-> [r EXCEPT !.i = @ + 1]]
RInt(r) == [x |-> IntAt(r.buf, r.i), r |-> [r EXCEPT !.i = @ + 4]]
RNum(r) == Bind(ReadNum(r.buf, r.i), LAMBDA n :
              [x |-> n.x, r |-> [r EXCEPT !.i = n.next]])

\* files.ReadString(r)
RString(r) ==
    Bind(CHOOSE k \in r.i .. Len(r.buf) :
            r.buf[k] = 0 /\ \A j \in r.i .. k - 1 : r.buf[j] # 0, LAMBDA z :
       [x |-> SubSeq(r.buf, r.i, z - 1), r |-> [r EXCEPT !.i = z + 1]])

\* the index of the first object of objs whose OrgName is id, 0 if there is none
IndexOfOrg(objs, id) ==
    IF \E k \in 1 .. Len(objs) : objs[k].OrgName = id
    THEN CHOOSE k \in 1 .. Len(objs) :
            objs[k].OrgName = id /\ \A j \in 1 .. k - 1 : objs[j].OrgName # id
    ELSE 0

\* Base.thisModule(name, orgName, decl, key): the state, and the index of
\* the module's object in the top scope
thisModule(c, name, orgName, decl, key) ==
    Bind(TopScope(c.orb), LAMBDA objs :
    Bind(IndexOfOrg(objs, orgName), LAMBDA k1 :
    Bind(IndexOf(objs, name), LAMBDA k2 :
    LET clash(k) == IF c.orb.types[objs[k].Type].Form = FormNoTyp
                    THEN MarkC(c, "mult def") ELSE MarkC(c, "invalid import order")
    IN IF k1 = 0
       THEN IF k2 = 0
            THEN [c |-> [c EXCEPT !.orb.scopes[Top(c.orb)] =
                            Append(@, [Object(name, ClassMod) EXCEPT
                                          !.OrgName = orgName, !.Val = key,
                                          !.Lev = c.orb.nOfMod,
                                          !.Type = IF decl THEN NoType ELSE NilType]),
                                  !.orb.nOfMod = @ + 1],
                  m |-> Len(objs) + 1]
            ELSE IF decl THEN [c |-> clash(k2), m |-> k2]
            ELSE [c |-> MarkC(c, "conflict with alias"), m |-> k2]
       ELSE IF decl THEN [c |-> clash(k1), m |-> k1]
       ELSE [c |-> c, m |-> k1])))

RECURSIVE inType(_, _)
RECURSIVE inFields(_, _, _)
RECURSIVE inPars(_, _, _)

\* the loop of inType over the fields of the record t, after their class was read
inFields(r, t, m) ==
    Bind(RByte(r), LAMBDA cl :
       IF cl.x = 0 THEN cl.r
       ELSE Bind(RString(cl.r), LAMBDA nm :
            Bind(IF nm.x # <<>> THEN inType(nm.r, m) ELSE [r |-> nm.r, typ |-> NilType], LAMBDA tp :
            Bind(RNum(tp.r), LAMBDA v :
            LET fld == [Object(nm.x, cl.x) EXCEPT !.Expo = nm.x # <<>>, !.Type = tp.typ, !.Val = v.x]
            IN inFields([v.r EXCEPT !.c.orb.types[t].Dsc = Append(@, fld)], t, m)))))

\* the loop of inType over the parameters of the procedure type t
inPars(r, t, m) ==
    Bind(RByte(r), LAMBDA cl :
       IF cl.x = 0 THEN cl.r
       ELSE Bind(RByte(cl.r), LAMBDA rdo :
            LET tp == inType(rdo.r, m)
                par == [Object(<<>>, cl.x) EXCEPT !.Rdo = rdo.x = 1, !.Type = tp.typ]
            IN inPars([tp.r EXCEPT !.c.orb.types[t].Dsc = <<par>> \o @,
                                   !.c.orb.types[t].NOfPar = @ + 1], t, m)))

\* Base.inType(r, thisMod) with thisMod the m-th object of the top scope
inType(r, m) ==
    Bind(RByte(r), LAMBDA rf :
    LET ref == rf.x
    IN IF ref < 0 THEN [r |-> rf.r, typ |-> r.c.orb.typTab[-ref]]
       ELSE
         Bind(RByte(rf.r), LAMBDA fm :
         LET form == fm.x
         IN
         Bind(AllocType(r.c, [Type(form, 0) EXCEPT !.Mno = TopScope(r.c.orb)[m].Lev]), LAMBDA a :
         LET t == a.typ
         IN
         Bind([fm.r EXCEPT !.c = [a.c EXCEPT !.orb.typTab[ref] = t]], LAMBDA r0 :
         LET r1 == IF form = FormPointer
                   THEN LET b == inType(r0, m)
                        IN [b.r EXCEPT !.c.orb.types[t].Base = b.typ, !.c.orb.types[t].Size = 4]
                   ELSE IF form = FormArray
                   THEN LET b == inType(r0, m)
                        IN
                        Bind(RNum(b.r), LAMBDA len :
                        Bind(RNum(len.r), LAMBDA size :
                           [size.r EXCEPT !.c.orb.types[t] =
                               [@ EXCEPT !.Base = b.typ, !.Len = len.x, !.Size = size.x]]))
                   ELSE IF form = FormRecord
                   THEN LET b == inType(r0, m)
                        IN
                        Bind(RNum(b.r), LAMBDA len :
                        Bind(RNum(len.r), LAMBDA ext :
                        Bind(RNum(ext.r), LAMBDA size :
                           inFields([size.r EXCEPT !.c.orb.types[t] =
                                        [@ EXCEPT !.Base = IF size.r.c.orb.types[b.typ].Form = FormNoTyp
                                                           THEN 0 ELSE b.typ,
                                                  !.Len = len.x, !.NOfPar = ext.x, !.Size = size.x]],
                                    t, m))))
                   ELSE IF form = FormProc
                   THEN LET b == inType(r0, m)
                        IN inPars([b.r EXCEPT !.c.orb.types[t].Base = b.typ,
                                              !.c.orb.types[t].Size = 4], t, m)
                   ELSE r0
         IN
         Bind(RString(r1), LAMBDA nm :
            IF nm.x = <<>> THEN [r |-> nm.r, typ |-> t]
            ELSE \* re-import
                 Bind(RInt(nm.r), LAMBDA key :
                 Bind(RString(key.r), LAMBDA name :
                 Bind(thisModule(name.r.c, nm.x, nm.x, FALSE, key.x), LAMBDA mod :
                 Bind(TopScope(mod.c.orb)[mod.m].Dsc, LAMBDA dsc :
                 Bind(IndexOf(dsc, name.x), LAMBDA k :
                    IF k # 0
                    THEN [r |-> [name.r EXCEPT !.c = [mod.c EXCEPT !.orb.typTab[ref] = dsc[k].Type]],
                          typ |-> dsc[k].Type]
                    ELSE [r |-> [name.r EXCEPT !.c =
                                   [mod.c EXCEPT
                                      !.orb.scopes[Top(mod.c.orb)][mod.m].Dsc =
                                          <<[Object(name.x, ClassTyp) EXCEPT !.Type = t]>> \o @,
                                      !.orb.types[t].Mno = TopScope(mod.c.orb)[mod.m].Lev,
                                      !.orb.types[t].TypObj = [d |-> -mod.m, i |-> Len(dsc) + 1],
                                      !.orb.typTab[ref] = t]],
                          typ |-> t]))))))))))

RECURSIVE inFixups(_, _)
\* the loop of Import that gives the pointer types read before the record
\* type t their base
inFixups(r, t) ==
    Bind(RByte(r), LAMBDA k :
       IF k.x = 0 THEN k.r
       ELSE inFixups([k.r EXCEPT !.c.orb.types[r.c.orb.typTab[k.x]].Base = t], t))

RECURSIVE importObjects(_, _)
\* the loop of Import over the objects of the file
importObjects(r, m) ==
    Bind(RByte(r), LAMBDA cl :
    LET class == cl.x
    IN IF class = 0 THEN cl.r
       ELSE Bind(RString(cl.r), LAMBDA nm :
            Bind(inType(nm.r, m), LAMBDA tp :
            Bind(TopScope(tp.r.c.orb)[m], LAMBDA thisMod :
            LET obj == [Object(nm.x, class) EXCEPT !.Type = tp.typ, !.Lev = -thisMod.Lev]
                isReal == tp.r.c.orb.types[tp.typ].Form = FormReal
            IN
            Bind(IF class = ClassTyp
                 THEN [x |-> 0,
                       r |-> inFixups([tp.r EXCEPT !.c.orb.types[tp.typ].TypObj =
                                          [d |-> -m, i |-> Len(thisMod.Dsc) + 1]], tp.typ)]
                 ELSE IF class = ClassConst
                 THEN IF isReal THEN RInt(tp.r) ELSE RNum(tp.r)
                 ELSE IF class = ClassVar THEN RNum(tp.r)
                 ELSE [x |-> 0, r |-> tp.r], LAMBDA v :
            LET obj1 == [obj EXCEPT !.Val = v.x, !.Rdo = class = ClassVar]
            IN importObjects([v.r EXCEPT !.c.orb.scopes[Top(v.r.c.orb)][m].Dsc = <<obj1>> \o @], m))))))

\* Base.Import(modId, modId1) for a module other than SYSTEM, with the files
\* fsys: the importing compiler instance afterwards
Import(c, fsys, modId, modId1) ==
    LET sf == fsys.smb[modId1]
    IN IF sf = NoFile THEN MarkC(c, "import not available")
       ELSE LET r0 == [buf |-> sf, i |-> 5, c |-> c]
            IN
            Bind(RInt(r0), LAMBDA key :
            LET modName == RString(key.r)
            IN
            Bind(thisModule(c, modId, modId1, TRUE, key.x), LAMBDA mod :
            LET c1 == [mod.c EXCEPT !.orb.scopes[Top(mod.c.orb)][mod.m].Rdo = TRUE]
            IN
            Bind(RByte([modName.r EXCEPT !.c = c1]), LAMBDA vk :
            LET r1 == IF vk.x # VersionKey THEN [vk.r EXCEPT !.c = MarkC(@, "wrong version")]
                      ELSE vk.r
            IN importObjects(r1, mod.m).c)))

(***************************************************************************)
(* A compiler instance c = [ors, orb, org, prs]: the Scanner, the Base,    *)
(* the Generator and the Parser that Compile creates together.  The source *)
(* text is given by its syntax: a constant expression e, a type te or a    *)
(* formal type ft is a record with a field k naming the construct, and an  *)
(* identifier with its export mark is a record [id, expo].                 *)
(***************************************************************************)
WordSize == 4
maxStrx == 2400
maxTD == 160

\* org.NewGenerator: the fields that declarations and the end of a module
\* use; the instructions emitted are counted in PC, their words are not kept
NewGenerator ==
    [PC |-> 0, strx |-> 0, str |-> <<>>, tdx |-> 0, varSize |-> 0,
     version |-> 0, check |-> FALSE, entry |-> 0, rh |-> 0, frame |-> 0]

\* NewParser, with p.newSF as Compile sets it.  stat, items and calls stand
\* for the local variables of the parsing procedures that are active: the
\* kind of the statement being parsed, the Items of the operands not yet
\* combined (innermost last), and for each call whose parameters are being
\* parsed the value rx of PrepCall, the procedure's Item, and the number of
\* items that were pending when the call began.
\* sym is p.sym; pc is the place in the parsing procedure that is active
\* and stack the places to which the procedures that called it return, each
\* with the position at which the loop there began its iteration (from,
\* once returned) and its count idle; idle counts the iterations of the
\* loop at pc that read no symbol and did not leave the loop; form is the
\* form of the type of the expression parsed last.
NewParser(newSF) ==
    [dc |-> 0, level |-> 0, exNo |-> 0, version |-> 0, newSF |-> newSF,
     modId |-> <<>>, pbsList |-> <<>>, stat |-> "none", items |-> <<>>, calls |-> <<>>,
     sym |-> 0, pc |-> "none", stack |-> <<>>, from |-> -1, idle |-> 0, form |-> 0]

\* p.dummy
dummy == [Object(<<>>, ClassVar) EXCEPT !.Type = IntType]

\* the four objects of Compile
NewCompiler(newSF) ==
    [ors |-> NewScanner, orb |-> NewBase, org |-> NewGenerator, prs |-> NewParser(newSF)]

RECURSIVE Skip(_, _)
\* the scanner after reading n characters
Skip(s, n) == IF n = 0 THEN s ELSE Skip(nextCh(s), n - 1)

\* Generator.MakeConstItem, Generator.MakeRealItem
MakeConstItem(typ, val) == [Mode |-> ClassConst, Type |-> typ, A |-> val, B |-> 0]
MakeRealItem(bits) == [Mode |-> ClassConst, Type |-> RealType, A |-> bits, B |-> 0]

\* Generator.MakeStringItem(x, len(Str)) with the scanner's Str
MakeStringItem(c, Str) ==
    LET length == Len(Str)
    IN
    Bind([Mode |-> ClassConst, Type |-> StrType, A |-> c.org.strx, B |-> length], LAMBDA x :
       IF c.org.strx + length + 4 < maxStrx
       THEN LET n == c.org.strx + length
            IN
            Bind((4 - (n % 4)) % 4, LAMBDA pad :
               [c |-> [c EXCEPT !.org.str = SubSeq(@, 1, c.org.strx) \o Str \o [k \in 1 .. pad |-> 0],
                                !.org.strx = n + pad],
                x |-> x])
       ELSE [c |-> MarkC(c, "too many strings"), x |-> x])

\* a variant of StrToChar that leaves the string in the pool
StrToCharKeepsString(c, x) ==
    [c |-> c, x |-> [x EXCEPT !.Type = CharType, !.A = c.org.str[x.A + 1]]]

\* Generator.StrToChar(x)
StrToChar(c, x) ==
    [c |-> [c EXCEPT !.org.strx = @ - 4],
     x |-> [x EXCEPT !.Type = CharType, !.A = c.org.str[x.A + 1]]]

\* p.expression(x) on a literal: factor's SymInt, SymReal and SymString cases
expression(c, e) ==
    IF e.k = "int" THEN [c |-> c, x |-> MakeConstItem(IntType, e.v)]
    ELSE IF e.k = "real" THEN [c |-> c, x |-> MakeRealItem(e.v)]
    ELSE MakeStringItem(c, e.s \o <<0>>)

\* p.checkExport() on an identifier marked (expo) or not
checkExport(c, expo) == IF expo /\ c.prs.level # 0 THEN MarkC(c, "remove asterisk") ELSE c

\* p.qualIdent() on an unqualified identifier: the state and the object found
qualIdent(c, id) ==
    Bind(ThisObj(c.orb, id), LAMBDA h :
       IF h = NilObj THEN [c |-> MarkC(c, "undef"), obj |-> dummy]
       ELSE [c |-> c, obj |-> Deref(c.orb, h)])

RECURSIVE identListFrom(_, _, _, _)
\* the loop of identList over ids[k..]
identListFrom(c, ids, k, class) ==
    IF k > Len(ids) THEN c
    ELSE Bind(NewObj(c, ids[k].id, class), LAMBDA n :
         LET c1 == checkExport(n.c, ids[k].expo)
         IN identListFrom([c1 EXCEPT !.orb.scopes[n.obj.d][n.obj.i].Expo = ids[k].expo],
                          ids, k + 1, class))

\* p.identList(class) on the identifiers ids: the state, and the index in
\* the top scope of the object it returns as first
identList(c, ids, class) ==
    [c |-> identListFrom(c, ids, 1, class),
     first |-> NewObj(c, ids[1].id, class).obj.i]

\* the words Generator.q writes for the type t
RECURSIVE qWords(_, _)
qWords(b, t) == IF b.types[t].Base # 0 THEN qWords(b, b.types[t].Base) + 1 ELSE 0

RECURSIVE ptrFldWords(_, _)
RECURSIVE SumOver(_, _, _)
\* the sum of f[k] over k..n
SumOver(f, k, n) == IF k > n THEN 0 ELSE f[k] + SumOver(f, k + 1, n)

\* the words Generator.findPtrFlds writes for the type typ
ptrFldWords(b, typ) ==
    LET T == b.types[typ]
    IN IF T.Form = FormPointer \/ T.Form = FormNilTyp THEN 1
       ELSE IF T.Form = FormRecord
       THEN Bind(FullDsc(b, typ), LAMBDA flds :
               SumOver([k \in 1 .. Len(flds) |-> ptrFldWords(b, flds[k].Type)], 1, Len(flds)))
       ELSE IF T.Form = FormArray /\ T.Len > 0
       THEN T.Len * ptrFldWords(b, T.Base)
       ELSE 0

\* Generator.BuildTD(t, &p.dc): t.Len becomes the descriptor's address, and
\* dc and tdx move past its words
BuildTD(c, t) ==
    LET T == c.orb.types[t]
        dcw == c.prs.dc \div 4
        k == T.NOfPar
    IN
    Bind([c EXCEPT !.orb.types[t].Len = c.prs.dc], LAMBDA c1 :
    LET c2 == IF k > 3 THEN MarkC(c1, "ext level too large") ELSE c1
        ext == IF k > 3 THEN 0 ELSE qWords(c1.orb, t) + (3 - k)
    IN
    Bind(dcw + 1 + ext + ptrFldWords(c1.orb, t) + 1, LAMBDA end :
    Bind([c2 EXCEPT !.org.tdx = end, !.prs.dc = end * 4], LAMBDA c3 :
       IF end >= maxTD
       THEN [MarkC(c3, "too many record types") EXCEPT !.org.tdx = 0]
       ELSE c3)))

(***************************************************************************)
(* The parser: types.                                                      *)
(***************************************************************************)
RECURSIVE _type(_, _)
RECURSIVE arrayType(_, _)
RECURSIVE recordType(_, _)
RECURSIVE recordFields(_, _, _)
RECURSIVE fieldNames(_, _, _, _)
RECURSIVE procedureType(_, _, _, _, _)
RECURSIVE fpSections(_, _, _, _, _)
RECURSIVE fpSection(_, _, _, _)
RECURSIVE formalType(_, _, _)
RECURSIVE setPars(_, _, _, _, _, _, _, _)

\* a multiple of 4 not below n, as (n + 3) / 4 * 4 computes it for n >= 0
Align4(n) == ((n + 3) \div 4) * 4

\* p.checkRecLevel(lev)
checkRecLevel(c, lev) == IF lev # 0 THEN MarkC(c, "ptr base must be global") ELSE c

\* the type PROCEDURE (pars) : res of _type and formalType: a new scope, the
\* parameters in it, and the scope's objects as the type's Dsc
procType(c, te) ==
    Bind(AllocType([c EXCEPT !.orb = OpenScope(@)], Type(FormProc, WordSize)), LAMBDA a :
    Bind(procedureType(a.c, a.typ, 0, te.pars, te.res), LAMBDA r :
       [c |-> [r.c EXCEPT !.orb.types[a.typ].Dsc = TopScope(r.c.orb),
                          !.orb = CloseScope(@)],
        typ |-> a.typ]))

\* p.arrayType() for ARRAY len OF base
arrayType(c, te) ==
    Bind(expression(c, te.len), LAMBDA x :
    Bind(x.x.Mode = ClassConst /\ x.c.orb.types[x.x.Type].Form = FormInt /\ x.x.A >= 0, LAMBDA ok :
    LET length == IF ok THEN x.x.A ELSE 1
        c1 == IF ok THEN x.c ELSE MarkC(x.c, "not a valid length")
    IN
    Bind(_type(c1, te.base), LAMBDA b :
    LET B == b.c.orb.types[b.typ]
        c2 == IF B.Form = FormArray /\ B.Len < 0 THEN MarkC(b.c, "dyn array not allowed") ELSE b.c
    IN AllocType(c2, [Type(FormArray, Align4(length * B.Size)) EXCEPT !.Base = b.typ, !.Len = length]))))

\* the inner loop of recordType over the names ids[k..] of one field list:
\* flds is the list built so far (newest first), bot the fields of the base
fieldNames(c, ids, k, flds) ==
    IF k > Len(ids) THEN [c |-> c, flds |-> flds.own]
    ELSE LET c1 == IF IndexOf(flds.own \o flds.bot, ids[k].id) # 0 THEN MarkC(c, "mult def") ELSE c
             fld == [Object(ids[k].id, ClassFld) EXCEPT !.Expo = ids[k].expo]
         IN fieldNames(checkExport(c1, ids[k].expo), ids, k + 1,
                       [flds EXCEPT !.own = <<fld>> \o @])

\* the outer loop of recordType over the field lists fls[k..]: r = [c, own,
\* bot, offset]
recordFields(r, fls, k) ==
    IF k > Len(fls) THEN r
    ELSE Bind(fieldNames(r.c, fls[k].ids, 1, [own |-> r.own, bot |-> r.bot]), LAMBDA f :
         LET n == Len(fls[k].ids)
             t == _type(f.c, fls[k].type)
         IN
         Bind(t.c.orb.types[t.typ], LAMBDA T :
         LET c1 == IF T.Form = FormArray /\ T.Len < 0 THEN MarkC(t.c, "dyn array not allowed") ELSE t.c
         IN
         Bind((IF T.Size > 1 THEN Align4(r.offset) ELSE r.offset) + n * T.Size, LAMBDA offset :
         \* the j-th newest field lies j sizes below the new offset
         Bind([j \in 1 .. Len(f.flds) |->
                  IF j <= n
                  THEN [f.flds[j] EXCEPT !.Type = t.typ, !.Lev = 0, !.Val = offset - j * T.Size]
                  ELSE f.flds[j]], LAMBDA own :
            recordFields([c |-> c1, own |-> own, bot |-> r.bot, offset |-> offset], fls, k + 1)))))

\* p.recordType() for RECORD (base) fields END; base = <<>> when there is
\* no extension
recordType(c, te) ==
    LET ext == te.base # <<>>
    IN
    Bind(IF ext /\ c.prs.level # 0
         THEN MarkC(c, "extension of local types not implemented") ELSE c, LAMBDA c0 :
    Bind(IF ext THEN qualIdent(c0, te.base) ELSE [c |-> c0, obj |-> dummy], LAMBDA q :
    Bind(ext /\ q.obj.Class = ClassTyp, LAMBDA isTyp :
    Bind(isTyp /\ q.c.orb.types[q.obj.Type].Form = FormRecord, LAMBDA isRec :
    Bind(IF isRec THEN q.obj.Type ELSE IF isTyp THEN IntType ELSE 0, LAMBDA base :
    Bind(IF ext /\ ~isTyp THEN MarkC(q.c, "type expected")
         ELSE IF isTyp /\ ~isRec THEN MarkC(q.c, "invalid extension")
         ELSE q.c, LAMBDA c1 :
    Bind(recordFields([c |-> c1, own |-> <<>>,
                       bot |-> IF isTyp THEN FullDsc(c1.orb, base) ELSE <<>>,
                       offset |-> IF isTyp THEN c1.orb.types[base].Size ELSE 0],
                      te.fields, 1), LAMBDA r :
       AllocType(r.c, [Type(FormRecord, Align4(r.offset)) EXCEPT
                          !.Base = base, !.Mno = -c.prs.level,
                          !.NOfPar = IF isTyp THEN c1.orb.types[base].NOfPar + 1 ELSE 0,
                          !.Dsc = r.own]))))))))

\* the loop of fpSection over the objects i.. of the top scope, from the
\* first one of the section to the end of the list
setPars(c, i, cl, tp, rdo, parSize, adr, nOfPar) ==
    IF i > Len(TopScope(c.orb)) THEN [c |-> c, adr |-> adr, nOfPar |-> nOfPar]
    ELSE setPars([c EXCEPT !.orb.scopes[Top(c.orb)][i] =
                      [@ EXCEPT !.Class = cl, !.Type = tp, !.Rdo = rdo,
                                !.Lev = c.prs.level, !.Val = adr]],
                 i + 1, cl, tp, rdo, parSize, adr + parSize, nOfPar + 1)

\* p.fpSection(&adr, &nOfPar) for the section sec = [var, ids, type]
fpSection(c, sec, adr, nOfPar) ==
    LET cl0 == IF sec.var THEN ClassPar ELSE ClassVar
    IN
    Bind(identList(c, sec.ids, cl0), LAMBDA l :
    Bind(formalType(l.c, sec.type, 0), LAMBDA t :
    LET T == t.c.orb.types[t.typ]
    IN
    Bind(cl0 = ClassVar /\ T.Form >= FormArray, LAMBDA byRef :
    LET parSize == IF (T.Form = FormArray /\ T.Len < 0) \/ T.Form = FormRecord
                   THEN 2 * WordSize ELSE WordSize
    IN
    Bind(setPars(t.c, l.first, IF byRef THEN ClassPar ELSE cl0, t.typ, byRef,
                 parSize, adr, nOfPar), LAMBDA r :
       IF r.adr >= 52 THEN [r EXCEPT !.c = MarkC(@, "too many parameters")] ELSE r))))

\* the loop of procedureType over the sections secs[k..]
fpSections(c, secs, k, adr, nOfPar) ==
    IF k > Len(secs) THEN [c |-> c, adr |-> adr, nOfPar |-> nOfPar]
    ELSE Bind(fpSection(c, secs[k], adr, nOfPar), LAMBDA r :
            fpSections(r.c, secs, k + 1, r.adr, r.nOfPar))

\* p.procedureType(pType, &parBlkSize) for (secs) : res; res = <<>> when the
\* procedure is no function
procedureType(c, pType, parBlkSize, secs, res) ==
    Bind(fpSections(c, secs, 1, parBlkSize, 0), LAMBDA r :
    Bind(IF res # <<>> THEN qualIdent(r.c, res) ELSE [c |-> r.c, obj |-> dummy], LAMBDA q :
    Bind(q.c.orb.types[q.obj.Type].Form, LAMBDA F :
    LET legal == q.obj.Class = ClassTyp /\ ((F >= FormByte /\ F <= FormPointer) \/ F = FormProc)
        c1 == IF res # <<>> /\ ~legal THEN MarkC(q.c, "illegal function type") ELSE q.c
    IN [c |-> [c1 EXCEPT !.orb.types[pType].Base = IF res # <<>> THEN q.obj.Type ELSE NoType,
                         !.orb.types[pType].Dsc = <<>>,
                         !.orb.types[pType].NOfPar = r.nOfPar],
        parBlkSize |-> r.adr])))

\* p.formalType(dim)
formalType(c, ft, dim) ==
    IF ft.k = "id"
    THEN Bind(qualIdent(c, ft.id), LAMBDA q :
            IF q.obj.Class = ClassTyp THEN [c |-> q.c, typ |-> q.obj.Type]
            ELSE [c |-> MarkC(q.c, "not a type"), typ |-> IntType])
    ELSE IF ft.k = "array"
    THEN LET c1 == IF dim >= 1
                   THEN MarkC(c, "multi-dimensional open arrays not implemented") ELSE c
         IN
         Bind(formalType(c1, ft.base, dim + 1), LAMBDA b :
            AllocType(b.c, [Type(FormArray, 2 * WordSize) EXCEPT !.Len = -1, !.Base = b.typ]))
    ELSE procType(c, ft)

\* p._type()
_type(c, te) ==
    IF te.k = "id"
    THEN Bind(qualIdent(c, te.id), LAMBDA q :
            IF q.obj.Class = ClassTyp
            THEN [c |-> q.c,
                  typ |-> IF q.obj.Type # 0 /\ q.c.orb.types[q.obj.Type].Form # FormNoTyp
                          THEN q.obj.Type ELSE IntType]
            ELSE [c |-> MarkC(q.c, "not a type or undefined"), typ |-> IntType])
    ELSE IF te.k = "array" THEN arrayType(c, te)
    ELSE IF te.k = "record" THEN recordType(c, te)
    ELSE IF te.k = "pointer"
    THEN \* POINTER TO identifier
         Bind(ThisObj(c.orb, te.id), LAMBDA h :
         Bind(AllocType(c, [Type(FormPointer, WordSize) EXCEPT !.Base = IntType]), LAMBDA a :
            IF h # NilObj
            THEN Bind(Deref(c.orb, h), LAMBDA obj :
                 IF obj.Class = ClassTyp /\ a.c.orb.types[obj.Type].Form \in {FormRecord, FormNoTyp}
                 THEN [c |-> [checkRecLevel(a.c, obj.Lev) EXCEPT !.orb.types[a.typ].Base = obj.Type],
                       typ |-> a.typ]
                 ELSE IF obj.Class = ClassMod
                 THEN [a EXCEPT !.c = MarkC(@, "external base type not implemented")]
                 ELSE [a EXCEPT !.c = MarkC(@, "no valid base type")])
            ELSE [c |-> [checkRecLevel(a.c, c.prs.level) EXCEPT
                            !.prs.pbsList = Append(@, [name |-> te.id, typ |-> a.typ])],
                  typ |-> a.typ]))
    ELSE procType(c, te)

(***************************************************************************)
(* The parser: declarations.                                               *)
(***************************************************************************)
\* one round of the CONST loop of declarations, for  id = e;
ConstDecl(c, d) ==
    Bind(expression(checkExport(c, d.expo), d.e), LAMBDA e :
    Bind(IF e.c.orb.types[e.x.Type].Form = FormString /\ e.x.B = 2
         THEN StrToChar(e.c, e.x) ELSE e, LAMBDA r :
    Bind(NewObj(r.c, d.id, ClassConst), LAMBDA n :
       [n.c EXCEPT !.orb.scopes[n.obj.d][n.obj.i] =
           [@ EXCEPT !.Expo = d.expo, !.Val = r.x.A, !.Lev = r.x.B, !.Type = r.x.Type]])))

\* a variant of TypeDecl that does not search the forward list
TypeDeclNoFixup(c, d) ==
    Bind(_type(checkExport(c, d.expo), d.type), LAMBDA t :
    Bind(NewObj(t.c, d.id, ClassTyp), LAMBDA n :
    LET h == n.obj
    IN
    Bind(n.c.orb.types[t.typ].Form = FormRecord, LAMBDA isRec :
    LET exp == d.expo /\ isRec
    IN
    Bind([n.c EXCEPT !.orb.scopes[h.d][h.i] =
                        [@ EXCEPT !.Type = t.typ, !.Expo = d.expo, !.Lev = n.c.prs.level,
                                  !.ExNo = IF exp THEN n.c.prs.exNo % 256 ELSE 0],
                     !.orb.types[t.typ].TypObj = IF @ = NilObj THEN h ELSE @,
                     !.prs.exNo = IF exp THEN @ + 1 ELSE @], LAMBDA c1 :
       IF ~isRec THEN c1
       ELSE IF c1.prs.level = 0 THEN BuildTD(c1, t.typ) ELSE c1))))

\* one round of the TYPE loop of declarations, for  id = type;
TypeDecl(c, d) ==
    Bind(_type(checkExport(c, d.expo), d.type), LAMBDA t :
    Bind(NewObj(t.c, d.id, ClassTyp), LAMBDA n :
    LET h == n.obj
    IN
    Bind(n.c.orb.types[t.typ].Form = FormRecord, LAMBDA isRec :
    LET exp == d.expo /\ isRec
    IN
    Bind([n.c EXCEPT !.orb.scopes[h.d][h.i] =
                        [@ EXCEPT !.Type = t.typ, !.Expo = d.expo, !.Lev = n.c.prs.level,
                                  !.ExNo = IF exp THEN n.c.prs.exNo % 256 ELSE 0],
                     !.orb.types[t.typ].TypObj = IF @ = NilObj THEN h ELSE @,
                     !.prs.exNo = IF exp THEN @ + 1 ELSE @], LAMBDA c1 :
    LET pbs == c1.prs.pbsList
    \* search and fixup of the pointer types that wait for this record
    IN
    Bind([c1 EXCEPT !.orb.types =
             [k \in 1 .. Len(@) |->
                 IF \E j \in 1 .. Len(pbs) : pbs[j].typ = k /\ pbs[j].name = d.id
                 THEN [@[k] EXCEPT !.Base = t.typ] ELSE @[k]]], LAMBDA c2 :
       IF ~isRec THEN c1
       ELSE IF c2.prs.level = 0 THEN BuildTD(c2, t.typ) ELSE c2)))))

RECURSIVE setVars(_, _, _)
\* the loop of the VAR part over the objects i.. of the top scope, from the
\* first one of the identifier list to the end of the list
setVars(c, i, tp) ==
    IF i > Len(TopScope(c.orb)) THEN c
    ELSE LET T == c.orb.types[tp]
         IN
         Bind(IF T.Size > 1 THEN Align4(c.prs.dc) ELSE c.prs.dc, LAMBDA adr :
         Bind(TopScope(c.orb)[i].Expo, LAMBDA expo :
            setVars([c EXCEPT !.orb.scopes[Top(c.orb)][i] =
                                 [@ EXCEPT !.Type = tp, !.Lev = c.prs.level, !.Val = adr,
                                           !.ExNo = IF expo THEN c.prs.exNo % 256 ELSE @],
                              !.prs.dc = adr + T.Size,
                              !.prs.exNo = IF expo THEN @ + 1 ELSE @],
                    i + 1, tp)))

\* one round of the VAR loop of declarations, for  ids : type;
VarDecl(c, d) ==
    Bind(identList(c, d.ids, ClassVar), LAMBDA l :
    Bind(_type(l.c, d.type), LAMBDA t :
       setVars(t.c, l.first, t.typ)))

RECURSIVE undefinedBases(_, _)
\* the last loop of declarations over pbsList[k..]
undefinedBases(c, k) ==
    IF k > Len(c.prs.pbsList) THEN c
    ELSE undefinedBases(IF c.orb.types[c.orb.types[c.prs.pbsList[k].typ].Base].Form = FormInt
                        THEN MarkC(c, "undefined pointer base of") ELSE c,
                        k + 1)

\* the end of declarations(&p.dc) at the level of the module, and the call
\* of SetDataSize that follows it
endDeclarations(c) ==
    Bind(undefinedBases([c EXCEPT !.prs.dc = Align4(@)], 1), LAMBDA c1 :
       [c1 EXCEPT !.org.varSize = Align4(c1.prs.dc)])

\* Generator.Enter(parBlkSize, locBlkSize, false)
Enter(c, parBlkSize, locBlkSize) ==
    LET c1 == IF locBlkSize >= 65536 THEN MarkC(c, "too many locals") ELSE c
    IN [c1 EXCEPT !.org.PC = @ + 2 + (IF parBlkSize > 4 THEN (parBlkSize - 4) \div 4 ELSE 0)]

\* p.procedureDecl() for  PROCEDURE id (pars) : res; END id  with neither
\* declarations nor statements nor a RETURN clause
ProcDecl(c, d) ==
    Bind(NewObj(c, d.id, ClassConst), LAMBDA n :
    LET h == n.obj
    IN
    Bind(AllocType(n.c, [Type(FormProc, WordSize) EXCEPT !.Base = NoType]), LAMBDA a :
    Bind(checkExport(a.c, d.expo), LAMBDA c0 :
    LET c1 == [c0 EXCEPT !.orb.scopes[h.d][h.i] =
                            [@ EXCEPT !.Type = a.typ, !.Val = -1, !.Lev = c0.prs.level,
                                      !.Expo = d.expo,
                                      !.ExNo = IF d.expo THEN c0.prs.exNo % 256 ELSE @],
                         !.prs.exNo = IF d.expo THEN @ + 1 ELSE @,
                         !.orb = OpenScope(@),
                         !.prs.level = @ + 1]
    IN
    Bind(procedureType(c1, a.typ, 4, d.pars, d.res), LAMBDA r :
    LET locBlkSize == Align4(r.parBlkSize)
        c2 == [r.c EXCEPT !.prs.pbsList = <<>>,
                          !.orb.scopes[h.d][h.i].Val = r.c.org.PC * 4,
                          !.orb.types[a.typ].Dsc = TopScope(r.c.orb)]
    IN
    Bind(Enter(c2, r.parBlkSize, locBlkSize), LAMBDA c3 :
    LET c4 == IF c3.orb.types[c3.orb.types[a.typ].Base].Form # FormNoTyp
              THEN [MarkC(c3, "function without result") EXCEPT !.orb.types[a.typ].Base = NoType]
              ELSE c3
    IN [c4 EXCEPT !.org.PC = @ + 3, !.orb = CloseScope(@), !.prs.level = @ - 1])))))

(***************************************************************************)
(* The parser: module, and the generator's Open, Header and Close.         *)
(***************************************************************************)
\* Generator.Open(v)
Open(g, v) ==
    [g EXCEPT !.PC = IF v = 0 THEN 8 ELSE 0, !.tdx = 0, !.strx = 0, !.rh = 0,
              !.check = v # 0, !.version = v]

\* a variant of Header that counts one instruction of entry code
HeaderOneWord(g) == [g EXCEPT !.entry = g.PC * 4, !.PC = @ + 1]

\* Generator.Header(): two instructions, one for RISC-0
Header(g) == [g EXCEPT !.entry = g.PC * 4, !.PC = IF g.version = 0 THEN @ + 1 ELSE @ + 2]

\* module() from the symbol MODULE to the call of declarations, for a module
\* without an import list: v = 0 for MODULE*
moduleHead(c, v, id) ==
    [c EXCEPT !.prs.version = v, !.prs.dc = IF v = 0 THEN 8 ELSE 0,
              !.orb = OpenScope(BaseInit(@)),
              !.prs.modId = id, !.prs.level = 0, !.prs.exNo = 1,
              !.org = Open(@, v), !.prs.pbsList = <<>>]

\* Generator.Close(modId, key, nOfEnt): the exit code of the module body is
\* emitted and the object file created; the file is kept by the fields of
\* its header.  io = "fail" makes os.Create fail, which ends in a panic
Close(c, fsys, modId, key, nOfEnt, io) ==
    Bind([c.org EXCEPT !.PC = IF c.org.version = 0 THEN @ + 2 ELSE @ + 3], LAMBDA g :
    LET c1 == [c EXCEPT !.org = g]
    IN IF io = "fail" THEN [c |-> c1, fs |-> fsys, panic |-> TRUE]
       ELSE [c |-> c1,
             fs |-> [fsys EXCEPT !.rsc[modId] =
                        [name |-> modId, key |-> key, version |-> g.version,
                         PC |-> g.PC, strx |-> g.strx, nOfEnt |-> nOfEnt, entry |-> g.entry]],
             panic |-> FALSE])

\* a variant of the end of module() that writes the object file whatever
\* the error count
moduleEndClosesAlways(c, fsys, ioS, ioO) ==
    Bind([c EXCEPT !.org = Header(@)], LAMBDA c0 :
    Bind(c0.ors.ErrCnt = 0 /\ c0.prs.version # 0, LAMBDA doExp :
    Bind(IF doExp THEN Export(c0, fsys, c0.prs.modId, c0.prs.newSF, ioS)
         ELSE [c |-> c0, fs |-> fsys, key |-> 0, newSF |-> c0.prs.newSF, panic |-> FALSE], LAMBDA e :
    Bind([e.c EXCEPT !.prs.newSF = e.newSF], LAMBDA c1 :
    LET doClose == ~e.panic
    IN
    Bind(IF doClose THEN Close(c1, e.fs, c1.prs.modId, e.key, c1.prs.exNo, ioO)
         ELSE [c |-> c1, fs |-> e.fs, panic |-> FALSE], LAMBDA cl :
    LET panic == e.panic \/ cl.panic
    IN [c |-> IF panic THEN cl.c
              ELSE [cl.c EXCEPT !.orb = CloseScope(@), !.prs.pbsList = <<>>],
        fs |-> cl.fs, exported |-> doExp, closed |-> doClose, panic |-> panic,
        key |-> e.key, wrote |-> doExp /\ e.newSF])))))

\* a variant of the end of module() that tests the error count once, before
\* Export
moduleEndChecksOnce(c, fsys, ioS, ioO) ==
    Bind([c EXCEPT !.org = Header(@)], LAMBDA c0 :
    Bind(c0.ors.ErrCnt = 0 /\ c0.prs.version # 0, LAMBDA doExp :
    Bind(IF doExp THEN Export(c0, fsys, c0.prs.modId, c0.prs.newSF, ioS)
         ELSE [c |-> c0, fs |-> fsys, key |-> 0, newSF |-> c0.prs.newSF, panic |-> FALSE], LAMBDA e :
    Bind([e.c EXCEPT !.prs.newSF = e.newSF], LAMBDA c1 :
    LET doClose == ~e.panic /\ c0.ors.ErrCnt = 0
    IN
    Bind(IF doClose THEN Close(c1, e.fs, c1.prs.modId, e.key, c1.prs.exNo, ioO)
         ELSE [c |-> c1, fs |-> e.fs, panic |-> FALSE], LAMBDA cl :
    LET panic == e.panic \/ cl.panic
    IN [c |-> IF panic THEN cl.c
              ELSE [cl.c EXCEPT !.orb = CloseScope(@), !.prs.pbsList = <<>>],
        fs |-> cl.fs, exported |-> doExp, closed |-> doClose, panic |-> panic,
        key |-> e.key, wrote |-> doExp /\ e.newSF])))))

\* module() from the call of Header to its end, with the files fsys: the
\* compiler instance and the files afterwards, whether Export and Close were
\* called, whether a panic ended the function, and the results of Export.
\* ioS and ioO tell whether the symbol file and the object file can be created
moduleEnd(c, fsys, ioS, ioO) ==
    Bind([c EXCEPT !.org = Header(@)], LAMBDA c0 :
    Bind(c0.ors.ErrCnt = 0 /\ c0.prs.version # 0, LAMBDA doExp :
    Bind(IF doExp THEN Export(c0, fsys, c0.prs.modId, c0.prs.newSF, ioS)
         ELSE [c |-> c0, fs |-> fsys, key |-> 0, newSF |-> c0.prs.newSF, panic |-> FALSE], LAMBDA e :
    Bind([e.c EXCEPT !.prs.newSF = e.newSF], LAMBDA c1 :
    LET doClose == ~e.panic /\ c1.ors.ErrCnt = 0
    IN
    Bind(IF doClose THEN Close(c1, e.fs, c1.prs.modId, e.key, c1.prs.exNo, ioO)
         ELSE [c |-> c1, fs |-> e.fs, panic |-> FALSE], LAMBDA cl :
    LET panic == e.panic \/ cl.panic
    IN [c |-> IF panic THEN cl.c
              ELSE [cl.c EXCEPT !.orb = CloseScope(@), !.prs.pbsList = <<>>],
        fs |-> cl.fs, exported |-> doExp, closed |-> doClose, panic |-> panic,
        key |-> e.key, wrote |-> doExp /\ e.newSF])))))

(***************************************************************************)
(* The source texts.  A module is given by its declarations, taken in      *)
(* their order from a menu; a menu entry is [kind, d].                     *)
(***************************************************************************)
IdM == <<77>>
IdN == <<78>>
IdA == <<65>>
IdE == <<69>>
IdF == <<70>>
IdP == <<80>>
IdQ == <<81>>
IdR == <<82>>
Ida == <<97>>
Idb == <<98>>
Idc == <<99>>
Idf == <<102>>
Idg == <<103>>
Idh == <<104>>
Idi == <<105>>
Idk == <<107>>
Idn == <<110>>
Ids == <<115>>
Idt == <<116>>
Idu == <<117>>
Idv == <<118>>
Idw == <<119>>
Idx == <<120>>
Idy == <<121>>
Idz == <<122>>

\* identifier, type and literal constructors
Pub(id) == [id |-> id, expo |-> TRUE]
Priv(id) == [id |-> id, expo |-> FALSE]
TId(id) == [k |-> "id", id |-> id]
TArray(n, base) == [k |-> "array", len |-> [k |-> "int", v |-> n], base |-> base]
TRecord(base, fields) == [k |-> "record", base |-> base, fields |-> fields]
TPointer(id) == [k |-> "pointer", id |-> id]
TProc(pars, res) == [k |-> "proc", pars |-> pars, res |-> res]
TOpen(base) == [k |-> "array", base |-> base]
Fields(ids, type) == [ids |-> ids, type |-> type]
Section(var, ids, type) == [var |-> var, ids |-> ids, type |-> type]
IntLit(v) == [k |-> "int", v |-> v]
RealLit(bits) == [k |-> "real", v |-> bits]
StrLit(str) == [k |-> "str", s |-> str]
DConst(id, e) == [kind |-> "const", d |-> [id |-> id.id, expo |-> id.expo, e |-> e]]
DType(id, type) == [kind |-> "type", d |-> [id |-> id.id, expo |-> id.expo, type |-> type]]
DVar(ids, type) == [kind |-> "var", d |-> [ids |-> ids, type |-> type]]
DProc(id, pars, res) ==
    [kind |-> "proc", d |-> [id |-> id.id, expo |-> id.expo, pars |-> pars, res |-> res]]

\* the declarations a module of the driver's runs is made of
ModuleMenu ==
    << DConst(Pub(Ida), IntLit(1)),
       DConst(Pub(Ida), IntLit(2)) >>

\* the declarations of the module that is exported and imported again:
\* constants of every kind of value, pointers declared before and after
\* their record, a record with exported and hidden fields and its extension,
\* an array, a procedure type, variables and procedures
RoundTripMenu ==
    << DConst(Pub(Ida), IntLit(-70000)),
       DConst(Pub(Ids), StrLit(<<97, 98, 99>>)),
       DConst(Pub(Idc), StrLit(<<120>>)),
       DConst(Pub(Idx), RealLit(1078530011)),
       DType(Pub(IdP), TPointer(IdR)),
       DType(Pub(IdR), TRecord(<<>>, << Fields(<<Pub(Idx), Priv(Idy)>>, TId(IdINTEGER)),
                                        Fields(<<Pub(Idn)>>, TId(IdP)),
                                        Fields(<<Priv(Idh)>>, TId(IdP)) >>)),
       DType(Pub(IdE), TRecord(IdR, << Fields(<<Pub(Idb)>>, TId(IdBOOLEAN)),
                                       Fields(<<Pub(Idk)>>, TArray(2, TId(IdCHAR))) >>)),
       DType(Priv(IdQ), TPointer(IdE)),
       DType(Pub(IdA), TArray(3, TId(IdR))),
       DType(Pub(IdF), TProc(<< Section(TRUE, <<Priv(Idi)>>, TId(IdINTEGER)),
                                Section(FALSE, <<Priv(Ida), Priv(Idb)>>, TOpen(TId(IdCHAR))) >>,
                             IdBOOLEAN)),
       DVar(<<Pub(Idv), Priv(Idw)>>, TId(IdR)),
       DVar(<<Pub(Idu)>>, TArray(2, TId(IdQ))),
       DVar(<<Pub(Idz)>>, TId(IdF)),
       DProc(Pub(Idf), << Section(FALSE, <<Priv(Idx)>>, TId(IdBYTE)),
                          Section(TRUE, <<Priv(Idy)>>, TId(IdR)) >>, <<>>),
       DProc(Pub(Idg), <<>>, <<>>) >>

\* the declarations of the two compilations that are compared: the exported
\* ones belong to both, the private ones to the second only
KeyMenu ==
    << DConst(Priv(Idb), IntLit(7)),
       DConst(Priv(Idc), StrLit(<<120>>)),
       DConst(Priv(Idt), StrLit(<<120, 121>>)),
       DConst(Pub(Ids), StrLit(<<97, 98, 99>>)),
       DConst(Pub(Ida), IntLit(5)),
       DType(Priv(IdQ), TRecord(<<>>, <<Fields(<<Priv(Idx)>>, TId(IdINTEGER))>>)),
       DType(Pub(IdR), TRecord(<<>>, <<Fields(<<Pub(Idx)>>, TId(IdINTEGER))>>)),
       DVar(<<Priv(Idw)>>, TId(IdINTEGER)),
       DVar(<<Pub(Idv)>>, TId(IdINTEGER)),
       DProc(Priv(Idg), <<>>, <<>>),
       DProc(Pub(Idf), <<>>, <<>>) >>

Menu(mode) ==
    IF mode = "module" THEN ModuleMenu
    ELSE IF mode = "roundtrip" THEN RoundTripMenu
    ELSE KeyMenu

\* whether the declaration d declares exported names only
IsExported(e) ==
    IF e.kind = "var" THEN \A k \in 1 .. Len(e.d.ids) : e.d.ids[k].expo ELSE e.d.expo

\* the parser's step for the menu entry e
Declare(c, e) ==
    IF e.kind = "const" THEN ConstDecl(c, e.d)
    ELSE IF e.kind = "type" THEN TypeDecl(c, e.d)
    ELSE IF e.kind = "var" THEN VarDecl(c, e.d)
    ELSE ProcDecl(c, e.d)

InitScanner == ors = NewScanner
InitNum == num = [x |-> 0, buf |-> <<>>, n |-> 0, y |-> 0, next |-> 0, ok |-> FALSE, pc |-> "idle"]
InitFold == fold = [op |-> "none", x |-> [Mode |-> "Const", A |-> 0], y |-> [Mode |-> "Const", A |-> 0],
                    res |-> [Mode |-> "Const", A |-> 0]]


\* no file exists yet
NoFiles == [smb |-> [m \in {IdM} |-> NoFile], rsc |-> [m \in {IdM} |-> NoObjFile]]

\* what is known of the module() call that ended last
NoModule ==
    [errs |-> 0, exported |-> FALSE, closed |-> FALSE, panic |-> FALSE,
     key |-> 0, wrote |-> FALSE, version |-> 1, newSF |-> FALSE, ioS |-> "ok", ioO |-> "ok",
     marks |-> 0, msg |-> "", scope |-> <<>>]

\* the driver before main: at is the place of the run, n the index in the
\* menu of the declaration parsed last, left the arguments still to compile,
\* exit the exit code (-1 while running), failed tells that a module of this
\* run ended with errors, last describes the module() call that ended last;
\* where two compilations are compared, keys are their keys and taken the
\* entries of the menu they were made of
IdleDriver(mode) ==
    [mode |-> mode, at |-> "idle", n |-> 0, left |-> 0, newSF |-> FALSE, exit |-> -1,
     failed |-> FALSE, last |-> NoModule, keys |-> <<0, 0>>, taken |-> {}]

InitRest(mode) ==
    /\ orb = NewBase
    /\ org = NewGenerator
    /\ prs = NewParser(FALSE)
    /\ peer = NewCompiler(FALSE)
    /\ fs = NoFiles
    /\ drv = IdleDriver(mode)

Init == InitScanner /\ InitNum /\ InitFold /\ InitRest("none")

\* the scanner reads one more character
ScanNextCh ==
    /\ ors.pos < MaxPos
    /\ ors' = nextCh(ors)
    /\ UNCHANGED <<num, fold, orb, org, prs, peer, fs, drv>>

\* some caller reports an error at the current position
ScanMark ==
    /\ ors.nMarks < MaxMarks
    /\ \E msg \in Messages : ors' = Mark(ors, msg)
    /\ UNCHANGED <<num, fold, orb, org, prs, peer, fs, drv>>

(***************************************************************************)
(* files: a number is written by WriteNum and read back by ReadNum.        *)
(***************************************************************************)
NumWrite ==
    /\ num.pc = "idle"
    /\ \E x \in NumSamples, tail \in NumTails :
          num' = [num EXCEPT !.x = x, !.buf = WriteNum(x) \o tail,
                             !.n = Len(WriteNum(x)), !.pc = "written"]
    /\ UNCHANGED <<ors, fold, orb, org, prs, peer, fs, drv>>

NumRead ==
    /\ num.pc = "written"
    /\ \E r \in {ReadNum(num.buf, 1)} :
          num' = [num EXCEPT !.y = r.x, !.next = r.next, !.ok = r.ok, !.pc = "read"]
    /\ UNCHANGED <<ors, fold, orb, org, prs, peer, fs, drv>>

NumReset ==
    /\ num.pc = "read"
    /\ num' = [x |-> 0, buf |-> <<>>, n |-> 0, y |-> 0, next |-> 0, ok |-> FALSE, pc |-> "idle"]
    /\ UNCHANGED <<ors, fold, orb, org, prs, peer, fs, drv>>

NextNum == NumWrite \/ NumRead \/ NumReset

SpecNum == Init /\ [][NextNum]_vars

(***************************************************************************)
(* org: DIV and MOD.                                                       *)
(***************************************************************************)
\* Go's x / y and x % y for y > 0: the quotient is truncated towards zero
GoQuo(x, y) == IF x < 0 /\ x % y # 0 THEN (x \div y) + 1 ELSE x \div y
GoRem(x, y) == x - y * GoQuo(x, y)

\* Generator.DivOp(op, x, y): the Item x afterwards and the scanner. With an
\* operand that is not constant, instructions are emitted and x is left in a
\* register.
DivOp(op, x, y, s) ==
    IF x.Mode = "Const" /\ y.Mode = "Const"
    THEN IF y.A > 0
         THEN [x |-> [x EXCEPT !.A = IF op = "div" THEN GoQuo(x.A, y.A) ELSE GoRem(x.A, y.A)],
               s |-> s]
         ELSE [x |-> x, s |-> Mark(s, IF op = "div" THEN "bad divisor" ELSE "bad modulus")]
    ELSE IF y.Mode = "Const" /\ y.A <= 0
         THEN [x |-> x, s |-> Mark(s, IF op = "div" THEN "bad divisor" ELSE "bad modulus")]
         ELSE [x |-> [x EXCEPT !.Mode = "Reg"], s |-> s]

FoldValues == (-FoldRange .. FoldRange) \cup {MinInt32, MinInt32 + 1, MaxInt32}

\* Parser.term meets x DIV y or x MOD y
TermDivOp ==
    /\ fold.op = "none"
    /\ ors.ErrCnt < MaxErrs
    /\ \E op \in {"div", "mod"}, xm \in {"Const", "Var"}, ym \in {"Const", "Var"},
          xa \in FoldValues, ya \in FoldValues :
          \E x \in {[Mode |-> xm, A |-> IF xm = "Const" THEN xa ELSE 0]} :
          \E y \in {[Mode |-> ym, A |-> IF ym = "Const" THEN ya ELSE 0]} :
          \E r \in {DivOp(op, x, y, ors)} :
             /\ fold' = [op |-> op, x |-> x, y |-> y, res |-> r.x]
             /\ ors' = r.s
    /\ UNCHANGED <<num, orb, org, prs, peer, fs, drv>>

\* Parser.term goes on to the next factor
TermNext ==
    /\ fold.op # "none"
    /\ fold' = [op |-> "none", x |-> [Mode |-> "Const", A |-> 0], y |-> [Mode |-> "Const", A |-> 0],
                res |-> [Mode |-> "Const", A |-> 0]]
    /\ UNCHANGED <<ors, num, orb, org, prs, peer, fs, drv>>

NextFold == TermDivOp \/ TermNext

SpecFold == Init /\ [][NextFold]_vars

NextMark == ScanNextCh \/ ScanMark

SpecMark == Init /\ [][NextMark]_vars

(***************************************************************************)
(* The driver: main compiles its arguments one after the other; a run of   *)
(* the program may follow another one, and the files stay.                 *)
(***************************************************************************)
\* the compiler instance the variables hold
Cur == [ors |-> ors, orb |-> orb, org |-> org, prs |-> prs]
SetCur(c) == ors' = c.ors /\ orb' = c.orb /\ org' = c.org /\ prs' = c.prs

\* the variables of the compiler instance after Compile returned: its
\* objects are no longer referred to
Dropped == NewCompiler(FALSE)

\* the compiler instance after the parser has read one more piece of text
ReadText(c) == [c EXCEPT !.ors = Skip(@, DeclLen)]

\* the driver after Compile returned: err tells that it returned an error
\* (a recovered panic), errs is the error count of the module
AfterCompile(d, err, errs) ==
    IF err THEN [d EXCEPT !.at = "exited", !.exit = 1]
    ELSE IF d.left = 1
    THEN [d EXCEPT !.at = "exited", !.exit = 0, !.left = 0, !.failed = @ \/ errs > 0]
    ELSE [d EXCEPT !.at = "run", !.left = @ - 1, !.failed = @ \/ errs > 0]

\* main is started with or without -s and with nargs arguments
MainStart ==
    /\ drv.mode = "module"
    /\ drv.at \in {"idle", "exited"}
    /\ \E newSF \in BOOLEAN, nargs \in 0 .. MaxArgs :
          drv' = IF nargs = 0
                 THEN [drv EXCEPT !.at = "exited", !.exit = 1, !.failed = FALSE, !.newSF = newSF]
                 ELSE [drv EXCEPT !.at = "run", !.exit = -1, !.failed = FALSE,
                                  !.newSF = newSF, !.left = nargs, !.n = 0]
    /\ UNCHANGED <<ors, orb, org, prs, peer, fs, num, fold>>

\* CompileFile(arg, newSF): the file cannot be opened, or Compile creates
\* the scanner, the base, the generator and the parser and calls module()
CompileFile ==
    /\ drv.mode = "module"
    /\ drv.at = "run"
    /\ \E open \in {"ok", "fail"} :
          IF open = "fail"
          THEN /\ drv' = AfterCompile(drv, TRUE, 0)
               /\ UNCHANGED <<ors, orb, org, prs>>
          ELSE /\ drv' = [drv EXCEPT !.at = "module", !.n = 0, !.last = NoModule]
               /\ SetCur(NewCompiler(drv.newSF))
    /\ UNCHANGED <<peer, fs, num, fold>>

\* module() reads the head of the module, or something else
ModuleHead ==
    /\ drv.at = "module"
    /\ \/ /\ drv.mode = "module"
          /\ LET c == MarkC(ReadText(Cur), "must start with MODULE")
             IN SetCur(Dropped) /\ drv' = AfterCompile(drv, FALSE, c.ors.ErrCnt)
       \/ /\ \E v \in (IF drv.mode = "module" THEN {0, 1} ELSE {1}) :
                SetCur(moduleHead(ReadText(Cur), v, IdM))
          /\ drv' = [drv EXCEPT !.at = "decl", !.n = 0]
    /\ UNCHANGED <<peer, fs, num, fold>>

\* a symbol is missing or out of place: check or one of its like calls Mark
SyntaxError ==
    /\ drv.mode = "module"
    /\ drv.at \in {"decl", "procs"}
    /\ ors.ErrCnt < MaxErrs
    /\ SetCur(MarkC(Cur, "no ;"))
    /\ UNCHANGED <<drv, peer, fs, num, fold>>

\* the entries of the menu that may come next, of the given kinds
NextEntries(kinds) ==
    {i \in drv.n + 1 .. Len(Menu(drv.mode)) : Menu(drv.mode)[i].kind \in kinds}

\* declarations reads a constant declaration
ConstDeclaration ==
    /\ drv.mode \in {"module", "roundtrip"}
    /\ drv.at = "decl"
    /\ \E i \in NextEntries({"const"}) :
          /\ SetCur(ConstDecl(ReadText(Cur), Menu(drv.mode)[i].d))
          /\ drv' = [drv EXCEPT !.n = i]
    /\ UNCHANGED <<peer, fs, num, fold>>

\* declarations reads a type declaration
TypeDeclaration ==
    /\ drv.mode \in {"module", "roundtrip"}
    /\ drv.at = "decl"
    /\ \E i \in NextEntries({"type"}) :
          /\ SetCur(TypeDecl(ReadText(Cur), Menu(drv.mode)[i].d))
          /\ drv' = [drv EXCEPT !.n = i]
    /\ UNCHANGED <<peer, fs, num, fold>>

\* declarations reads a variable declaration
VarDeclaration ==
    /\ drv.mode \in {"module", "roundtrip"}
    /\ drv.at = "decl"
    /\ \E i \in NextEntries({"var"}) :
          /\ SetCur(VarDecl(ReadText(Cur), Menu(drv.mode)[i].d))
          /\ drv' = [drv EXCEPT !.n = i]
    /\ UNCHANGED <<peer, fs, num, fold>>

\* declarations meets a symbol that begins no declaration, and returns
DeclarationsEnd ==
    /\ drv.mode \in {"module", "roundtrip"}
    /\ drv.at = "decl"
    /\ SetCur(endDeclarations(Cur))
    /\ drv' = [drv EXCEPT !.at = "procs"]
    /\ UNCHANGED <<peer, fs, num, fold>>

\* module() reads a procedure declaration
ProcDeclaration ==
    /\ drv.mode \in {"module", "roundtrip"}
    /\ drv.at = "procs"
    /\ \E i \in NextEntries({"proc"}) :
          /\ SetCur(ProcDecl(ReadText(Cur), Menu(drv.mode)[i].d))
          /\ drv' = [drv EXCEPT !.n = i]
    /\ UNCHANGED <<peer, fs, num, fold>>

\* module() reads the end of the module and writes the files; Compile returns
ModuleEnd ==
    /\ drv.mode \in {"module", "roundtrip"}
    /\ drv.at = "procs"
    /\ \E ioS \in {"ok", "fail"}, ioO \in {"ok", "fail"} :
          /\ drv.mode = "roundtrip" => ioS = "ok" /\ ioO = "ok"
          /\ \E c \in {ReadText(Cur)} :
             \E r \in {moduleEnd(c, fs, ioS, ioO)} :
             \E last \in {[errs |-> c.ors.ErrCnt, exported |-> r.exported, closed |-> r.closed,
                           panic |-> r.panic, key |-> r.key, wrote |-> r.wrote,
                           version |-> c.prs.version, newSF |-> c.prs.newSF,
                           ioS |-> ioS, ioO |-> ioO,
                           marks |-> r.c.ors.nMarks - c.ors.nMarks, msg |-> r.c.ors.markMsg,
                           scope |-> IF drv.mode = "module" THEN <<>> ELSE TopScope(c.orb)]} :
                /\ SetCur(IF drv.mode = "module" THEN Dropped ELSE r.c)
                /\ fs' = r.fs
                /\ drv' = IF drv.mode = "module"
                          THEN [AfterCompile(drv, r.panic, r.c.ors.ErrCnt) EXCEPT !.last = last]
                          ELSE [drv EXCEPT !.at = "exported", !.last = last]
    /\ UNCHANGED <<peer, num, fold>>

NextModule ==
    \/ MainStart
    \/ CompileFile
    \/ ModuleHead
    \/ SyntaxError
    \/ ConstDeclaration
    \/ DeclarationsEnd
    \/ ModuleEnd

InitModule == InitScanner /\ InitNum /\ InitFold /\ InitRest("module")

SpecModule == InitModule /\ [][NextModule]_vars

(***************************************************************************)
(* C9 and C10: the throttle of Mark.                                       *)
(***************************************************************************)
\* a step that is a call of Mark
IsMarkStep == ors'.nMarks = ors.nMarks + 1
\* that call wrote its message
WroteStep == ors'.sinkN = ors.sinkN + 1

\* C9 as stated: a call at position p writes exactly when p is beyond the
\* position of the last reported message + 3 and fewer than 25 messages
\* were emitted (before the first message the window starts at 0).
C9_AsClaimed ==
    [][IsMarkStep =>
        (WroteStep <=>
            /\ Pos(ors) > (IF ors.sinkN = 0 THEN 0 ELSE ors.sinkPos + 3)
            /\ ors.sinkN < 25)]_vars

\* C9 amended: a call of Mark at position p writes its message exactly when
\* p > e and fewer than 25 calls of Mark came before it, where e is 0 before
\* the first call and afterwards the position of the most recent call of
\* Mark, written or suppressed, plus 4: a suppressed call moves the window.
C9_MarkWindow ==
    [][IsMarkStep =>
        (WroteStep <=>
            /\ Pos(ors) > (IF ors.nMarks = 0 THEN 0 ELSE ors.markPos + 4)
            /\ ors.nMarks < 25)]_vars

\* a suppressed call of Mark exactly 4 positions after the last written
\* message, followed by a call beyond it that was suppressed by the moved
\* window or written
C9_Witness ==
    /\ ors.sinkN = 1
    /\ ors.nMarks >= 3
    /\ ors.markPos > ors.sinkPos + 4
    /\ ors.markPos <= ors.sinkPos + 8

\* C10 as stated: the error count never exceeds 25.
C10_AsClaimed == ors.ErrCnt <= 25

\* C10 amended: ErrCnt is the number of calls of Mark made so far, however
\* many: it exceeds 25 as soon as more than 25 calls were made.
C10_ErrCntCountsMarks == ors.ErrCnt = ors.nMarks

C10_Witness == ors.ErrCnt = 26 /\ ors.nMarks = 26

(***************************************************************************)
(* C8: WriteNum and ReadNum.                                               *)
(***************************************************************************)
\* C8: for every sampled 32-bit x, ReadNum on the bytes of WriteNum(x) (with
\* whatever follows them) returns x and stops right behind the bytes written;
\* every byte but the last has its high bit set, the last has it clear.
C8_NumRoundTrip ==
    /\ num.pc # "idle" =>
          /\ num.n >= 1
          /\ \A i \in 1 .. num.n - 1 : num.buf[i] >= 128
          /\ num.buf[num.n] < 128
    /\ num.pc = "read" => num.ok /\ num.y = num.x /\ num.next = num.n + 1

\* a negative number of five bytes has been read back
C8_Witness == num.pc = "read" /\ num.x = MinInt32 /\ num.n = 5 /\ Len(num.buf) = 7

(***************************************************************************)
(* C5: constant folding of DIV and MOD.                                    *)
(***************************************************************************)
FoldedConst == fold.op # "none" /\ fold.x.Mode = "Const" /\ fold.y.Mode = "Const" /\ fold.y.A > 0

\* C5: with two constant operands and a positive divisor, the folded DIV is
\* the floored quotient q (0 <= x - q*y < y) and the folded MOD the
\* remainder r with 0 <= r < y and y dividing x - r.
C5_FlooredDivMod ==
    FoldedConst =>
        /\ fold.res.Mode = "Const"
        /\ fold.op = "div" =>
              /\ fold.x.A - fold.res.A * fold.y.A >= 0
              /\ fold.x.A - fold.res.A * fold.y.A < fold.y.A
        /\ fold.op = "mod" =>
              /\ fold.res.A >= 0
              /\ fold.res.A < fold.y.A
              /\ (fold.x.A - fold.res.A) % fold.y.A = 0

(***************************************************************************)
(* A module is compiled and its symbol file imported by another module.    *)
(***************************************************************************)
\* module N imports M: module() of N up to the end of its import list
ImportModule ==
    /\ drv.mode = "roundtrip"
    /\ drv.at = "exported"
    /\ peer' = Import(moduleHead(ReadText(NewCompiler(FALSE)), 1, IdN), fs, IdM, IdM)
    /\ drv' = [drv EXCEPT !.at = "imported"]
    /\ UNCHANGED <<ors, orb, org, prs, fs, num, fold>>

NextRoundTrip ==
    \/ ModuleHead
    \/ ConstDeclaration
    \/ TypeDeclaration
    \/ VarDeclaration
    \/ DeclarationsEnd
    \/ ProcDeclaration
    \/ ModuleEnd
    \/ ImportModule

InitRoundTrip ==
    /\ InitScanner /\ InitNum /\ InitFold
    /\ orb = NewBase
    /\ org = NewGenerator
    /\ prs = NewParser(FALSE)
    /\ peer = NewCompiler(FALSE)
    /\ fs = NoFiles
    /\ drv = [IdleDriver("roundtrip") EXCEPT !.at = "module"]

SpecRoundTrip == InitRoundTrip /\ [][NextRoundTrip]_vars

(***************************************************************************)
(* Two compilations of a module M side by side, in directories of their    *)
(* own: the variables hold the first, peer is the second.  Both are made   *)
(* of the same exported declarations; the second has private ones as well. *)
(***************************************************************************)
\* both read the head of the module
KeyModuleHead ==
    /\ drv.mode = "key"
    /\ drv.at = "module"
    /\ SetCur(moduleHead(ReadText(Cur), 1, IdM))
    /\ peer' = moduleHead(ReadText(peer), 1, IdM)
    /\ drv' = [drv EXCEPT !.at = "decl"]
    /\ UNCHANGED <<fs, num, fold>>

\* the entries of the menu that may come next where the parser stands
KeyEntries(exported) ==
    {i \in NextEntries(IF drv.at = "decl" THEN {"const", "type", "var"} ELSE {"proc"}) :
        IsExported(Menu(drv.mode)[i]) = exported}

\* both read the same exported declaration
KeyDeclareBoth ==
    /\ drv.mode = "key"
    /\ drv.at \in {"decl", "procs"}
    /\ \E i \in KeyEntries(TRUE) :
          /\ SetCur(Declare(ReadText(Cur), Menu(drv.mode)[i]))
          /\ peer' = Declare(ReadText(peer), Menu(drv.mode)[i])
          /\ drv' = [drv EXCEPT !.n = i, !.taken = @ \cup {i}]
    /\ UNCHANGED <<fs, num, fold>>

\* the second reads a private declaration that the first does not have
KeyDeclarePrivate ==
    /\ drv.mode = "key"
    /\ drv.at \in {"decl", "procs"}
    /\ \E i \in KeyEntries(FALSE) :
          /\ peer' = Declare(ReadText(peer), Menu(drv.mode)[i])
          /\ drv' = [drv EXCEPT !.n = i, !.taken = @ \cup {i}]
    /\ UNCHANGED <<ors, orb, org, prs, fs, num, fold>>

\* both reach the end of their declarations
KeyDeclarationsEnd ==
    /\ drv.mode = "key"
    /\ drv.at = "decl"
    /\ SetCur(endDeclarations(Cur))
    /\ peer' = endDeclarations(peer)
    /\ drv' = [drv EXCEPT !.at = "procs", !.n = 0]
    /\ UNCHANGED <<fs, num, fold>>

\* both reach the end of the module and export
KeyModuleEnd ==
    /\ drv.mode = "key"
    /\ drv.at = "procs"
    /\ \E r1 \in {moduleEnd(ReadText(Cur), NoFiles, "ok", "ok")} :
       \E r2 \in {moduleEnd(ReadText(peer), NoFiles, "ok", "ok")} :
          /\ SetCur(r1.c)
          /\ peer' = r2.c
          /\ fs' = r1.fs
          /\ drv' = [drv EXCEPT !.at = IF r1.exported /\ r2.exported THEN "keyed" ELSE "failed",
                                !.keys = <<r1.key, r2.key>>]
    /\ UNCHANGED <<num, fold>>

NextKey ==
    \/ KeyModuleHead
    \/ KeyDeclareBoth
    \/ KeyDeclarePrivate
    \/ KeyDeclarationsEnd
    \/ KeyModuleEnd

InitKey ==
    /\ InitScanner /\ InitNum /\ InitFold
    /\ orb = NewBase
    /\ org = NewGenerator
    /\ prs = NewParser(FALSE)
    /\ peer = NewCompiler(FALSE)
    /\ fs = NoFiles
    /\ drv = [IdleDriver("key") EXCEPT !.at = "module"]

SpecKey == InitKey /\ [][NextKey]_vars

(***************************************************************************)
(* The end of module(): which files it writes.                             *)
(***************************************************************************)
\* a step in which module() goes from the end of the text to its return
IsModuleEnd == drv.at = "procs" /\ drv'.at # "procs"

\* the key Export computes for the module being compiled
NewKey == SymbolFile(orb, ors, prs.modId).sum

\* the symbol file of the module exists and holds another key
KeyChanged ==
    /\ fs.smb[prs.modId] # NoFile
    /\ readKey(fs.smb[prs.modId]).key # NewKey

\* C1: when module() reaches its end with a non-zero error count, neither
\* Export nor Close is called, and no symbol file and no object file is
\* created or changed.
C1_NoFilesOnErrors ==
    [][IsModuleEnd /\ ors.ErrCnt # 0
          => /\ ~drv'.last.exported
             /\ ~drv'.last.closed
             /\ fs' = fs]_vars

\* a module with errors has ended, and there is still no file
C1_Witness ==
    /\ drv.last.errs > 0
    /\ ~drv.last.exported
    /\ ~drv.last.closed
    /\ fs = NoFiles

\* C2: Export called with newSF = false while the symbol file exists with
\* another key leaves the file as it is, marks "new symbol file inhibited"
\* and reports that no new file was written.
C2_ExportInhibited ==
    [][IsModuleEnd /\ ors.ErrCnt = 0 /\ prs.version # 0 /\ ~prs.newSF /\ KeyChanged
          => /\ fs'.smb = fs.smb
             /\ drv'.last.marks = 1
             /\ drv'.last.msg = "new symbol file inhibited"
             /\ ~drv'.last.wrote
             /\ drv'.last.key = NewKey]_vars

\* Export has refused to replace a symbol file
C2_Witness ==
    /\ drv.last.exported
    /\ ~drv.last.newSF
    /\ ~drv.last.wrote
    /\ drv.last.msg = "new symbol file inhibited"
    /\ fs.smb[IdM] # NoFile

\* C3 as claimed: a module of version 1 parsed without errors always gets its
\* object file, whatever Export finds (the files can be created).
C3_AsClaimed ==
    [][IsModuleEnd /\ ors.ErrCnt = 0 /\ prs.version = 1
          /\ drv'.last.ioS = "ok" /\ drv'.last.ioO = "ok"
          => drv'.last.closed]_vars

\* C3: a module of version 1 parsed without errors gets its object file
\* exactly when Export has not marked "new symbol file inhibited": with no
\* symbol file before, with an unchanged key, or with newSF = true: and
\* not with a changed key and newSF = false (no panic ends the function).
C3_CloseUnlessInhibited ==
    [][IsModuleEnd /\ ors.ErrCnt = 0 /\ prs.version = 1 /\ ~drv'.last.panic
          => /\ drv'.last.closed <=> ~(~prs.newSF /\ KeyChanged)
             /\ drv'.last.closed => fs'.rsc[prs.modId] # NoObjFile
             /\ ~drv'.last.closed => fs'.rsc = fs.rsc]_vars

\* a module parsed without errors has ended without an object file
C3_Witness ==
    /\ drv.last.errs = 0
    /\ drv.last.version = 1
    /\ drv.last.exported
    /\ ~drv.last.panic
    /\ ~drv.last.closed

\* C4 as claimed: when a module of the run ended with errors, the exit code
\* of the driver is not 0.
C4_AsClaimed == drv.at = "exited" /\ drv.failed => drv.exit # 0

(***************************************************************************)
(* C6: what Import reads is what Export wrote.                             *)
(***************************************************************************)
\* the objects of a list with the export mark
Exported(objs) == SelectSeq(objs, LAMBDA o : o.Expo)

\* the objects module N has got from M, in the order of M's declarations
Imported ==
    Bind(TopScope(peer.orb)[1].Dsc, LAMBDA dsc :
       [k \in 1 .. Len(dsc) |-> dsc[Len(dsc) + 1 - k]])

RECURSIVE SameType(_, _, _)
\* the type t1 of the exporting module and the type t2 of the importing one
\* agree, as far as d levels of component types: in form and size, and by
\* form in length, extension level, base, exported fields and parameters
SameType(t1, t2, d) ==
    d = 0 \/
    LET T1 == orb.types[t1]
        T2 == peer.orb.types[t2]
    IN
    Bind(Exported(FullDsc(orb, t1)), LAMBDA f1 :
    Bind(Exported(FullDsc(peer.orb, t2)), LAMBDA f2 :
    Bind(SubSeq(T1.Dsc, 1, T1.NOfPar), LAMBDA p1 :
    LET p2 == T2.Dsc
    IN /\ T1.Form = T2.Form
       /\ T1.Size = T2.Size
       /\ T1.Form = FormPointer => SameType(T1.Base, T2.Base, d - 1)
       /\ T1.Form = FormArray => T1.Len = T2.Len /\ SameType(T1.Base, T2.Base, d - 1)
       /\ T1.Form = FormRecord =>
             /\ T1.NOfPar = T2.NOfPar
             /\ (T1.Base = 0) = (T2.Base = 0)
             /\ T1.Base # 0 => SameType(T1.Base, T2.Base, d - 1)
             /\ Len(f1) = Len(f2)
             /\ \A k \in 1 .. Len(f1) :
                   /\ f1[k].Name = f2[k].Name
                   /\ f1[k].Val = f2[k].Val
                   /\ SameType(f1[k].Type, f2[k].Type, d - 1)
       /\ T1.Form = FormProc =>
             /\ T1.NOfPar = T2.NOfPar
             /\ Len(p2) = T2.NOfPar
             /\ SameType(T1.Base, T2.Base, d - 1)
             /\ \A k \in 1 .. Len(p1) :
                   /\ p1[k].Class = p2[k].Class
                   /\ p1[k].Rdo = p2[k].Rdo
                   /\ SameType(p1[k].Type, p2[k].Type, d - 1))))

\* the exported object o1 and the imported object o2 agree
SameObject(o1, o2) ==
    /\ o1.Name = o2.Name
    /\ o1.Class = o2.Class
    /\ SameType(o1.Type, o2.Type, TypeDepth)
    /\ o1.Class = ClassConst =>
          o2.Val = IF orb.types[o1.Type].Form = FormProc THEN o1.ExNo ELSE o1.Val
    /\ o1.Class = ClassVar => o2.Val = o1.ExNo

\* the symbol file of M was written and N has imported it without an error
RoundTripDone ==
    drv.at = "imported" /\ drv.last.wrote /\ peer.ors.ErrCnt = 0

IsString(i) ==
    /\ KeyMenu[i].kind = "const"
    /\ KeyMenu[i].d.e.k = "str"
    /\ Len(KeyMenu[i].d.e.s) > 1

\* the second compilation has a private string of more than one character
\* before an exported string constant
PrivateStringFirst ==
    \E i \in drv.taken, j \in drv.taken :
        i < j /\ IsString(i) /\ IsString(j) /\ ~IsExported(KeyMenu[i]) /\ IsExported(KeyMenu[j])

ScanToken ==
    /\ ors.pos < TokLen * MaxTokens
    /\ ors' = Skip(ors, TokLen)
    /\ UNCHANGED <<num, fold, orb, org, prs, peer, fs, drv>>

NextSink == ScanToken \/ ScanMark

SpecSink == Init /\ [][NextSink]_vars

(***************************************************************************)
(* C11: the messages written to the sink.                                  *)
(***************************************************************************)
\* C11: after any sequence of calls of Mark the number of messages written
\* to the sink is at most 25 and at most ErrCnt.
C11_SinkBounded == ors.sinkN <= 25 /\ ors.sinkN <= ors.ErrCnt

\* 26 calls of Mark, each beyond the window of the one before: 25 messages
\* were written and the last call, 5 or more positions after the 25th
\* message, wrote nothing
C11_Witness ==
    /\ ors.nMarks = 26
    /\ ors.ErrCnt = 26
    /\ ors.sinkN = 25
    /\ ors.markPos > ors.sinkPos + 4

(***************************************************************************)
(* orb: the scopes.  The parser opens the module's scope, imports modules  *)
(* into it, and then declares objects in it and in the scopes of           *)
(* procedures; drv tells the call made last, the identifier given to it    *)
(* and the object it returned.                                             *)
(***************************************************************************)
ScopeIds == {IdA, IdM, IdINTEGER}
ScopeClasses == {ClassConst, ClassVar}

\* the import list is being read: the module's scope holds modules only
Importing ==
    /\ Top(orb) = 2
    /\ \A k \in 1 .. Len(TopScope(orb)) : TopScope(orb)[k].Class = ClassMod

ScopeCall(op, id, obj, had) ==
    drv' = [drv EXCEPT !.at = op, !.last = [id |-> id, obj |-> obj, had |-> had]]

\* module() starts with Init and OpenScope; a procedure opens its scope
ScopeOpen ==
    /\ Top(orb) < 1 + MaxDepth
    /\ orb' = IF Top(orb) = 1 THEN OpenScope(BaseInit(orb)) ELSE OpenScope(orb)
    /\ ScopeCall("OpenScope", <<>>, NilObj, FALSE)
    /\ UNCHANGED <<ors, num, fold, org, prs, peer, fs>>

ScopeClose ==
    /\ Top(orb) > 1
    /\ orb' = CloseScope(orb)
    /\ ScopeCall("CloseScope", <<>>, NilObj, FALSE)
    /\ UNCHANGED <<ors, num, fold, org, prs, peer, fs>>

ScopeNewObj ==
    /\ Top(orb) > 1
    /\ ors.ErrCnt < MaxErrs
    /\ \E id \in ScopeIds, class \in ScopeClasses :
          /\ Len(TopScope(orb)) < MaxObjs \/ IndexOf(TopScope(orb), id) # 0
          /\ \E r \in {NewObj(Cur, id, class)} :
                /\ SetCur(r.c)
                /\ ScopeCall("NewObj", id, r.obj, IndexOf(TopScope(orb), id) # 0)
    /\ UNCHANGED <<num, fold, peer, fs>>

ScopeThisModule ==
    /\ Importing
    /\ ors.ErrCnt < MaxErrs
    /\ \E name \in ScopeIds, orgName \in {IdA, IdM}, decl \in BOOLEAN :
          /\ Len(TopScope(orb)) < MaxObjs
                \/ IndexOf(TopScope(orb), name) # 0
                \/ IndexOfOrg(TopScope(orb), orgName) # 0
          /\ \E r \in {thisModule(Cur, name, orgName, decl, 0)} :
                /\ SetCur(r.c)
                /\ ScopeCall("thisModule", name, [d |-> 2, i |-> r.m],
                             IndexOf(TopScope(orb), name) # 0)
    /\ UNCHANGED <<num, fold, peer, fs>>

NextScope == ScopeOpen \/ ScopeClose \/ ScopeNewObj \/ ScopeThisModule

SpecScope == Init /\ [][NextScope]_vars

(***************************************************************************)
(* C12: the names of a scope.                                              *)
(***************************************************************************)
\* no two objects of the list have the same name
UniqueNames(objs) ==
    \A j \in 1 .. Len(objs), k \in 1 .. Len(objs) : objs[j].Name = objs[k].Name => j = k

\* C12: after any sequence of OpenScope, NewObj, CloseScope and thisModule
\* no scope holds two objects of the same name, and NewObj with a name
\* present in the current scope leaves the list as it is, marks "mult def"
\* and returns the object that is there.
C12_UniqueNames ==
    /\ [](\A d \in 1 .. Len(orb.scopes) : UniqueNames(orb.scopes[d]))
    /\ [][drv'.at = "NewObj" /\ IndexOf(TopScope(orb), drv'.last.id) # 0 =>
             /\ orb' = orb
             /\ ors'.ErrCnt = ors.ErrCnt + 1
             /\ ors'.markMsg = "mult def"
             /\ drv'.last.obj = [d |-> Top(orb), i |-> IndexOf(TopScope(orb), drv'.last.id)]
             /\ Deref(orb, drv'.last.obj).Name = drv'.last.id]_vars

\* NewObj was called in the module's scope with the name of an imported
\* module, below a universe that holds that name too
C12_Witness ==
    /\ drv.at = "NewObj"
    /\ drv.last.had
    /\ drv.last.id = IdINTEGER
    /\ Top(orb) = 2
    /\ Deref(orb, drv.last.obj).Class = ClassMod
    /\ ors.markMsg = "mult def"

(***************************************************************************)
(* org: the register stack.  An Item is given by its mode and register,    *)
(* and the Item of a procedure by fn as well: it is a function.            *)
(***************************************************************************)
mt == 12
maxCode == 8000
classReg == 10

\* Generator.incR
incR(c) ==
    IF c.org.rh < mt - 1 THEN [c EXCEPT !.org.rh = @ + 1]
    ELSE MarkC(c, "register stack overflow")

\* Generator.load(x) of a constant or a variable, or of a value that is in
\* a register already
load(c, x) ==
    IF x.Mode # classReg
    THEN [c |-> incR(c), x |-> [Mode |-> classReg, r |-> c.org.rh]]
    ELSE [c |-> c, x |-> x]

\* Generator.AddOp(op, x, y) where y is no constant
AddOp(c, x, y) ==
    Bind(load(c, x), LAMBDA lx :
    Bind(load(lx.c, y), LAMBDA ly :
       [c |-> [ly.c EXCEPT !.org.rh = @ - 1],
        x |-> [Mode |-> classReg, r |-> ly.c.org.rh - 2]]))

\* Generator.Store(x, y) into a variable x
Store(c, x, y) ==
    Bind(load(c, y), LAMBDA ly : [ly.c EXCEPT !.org.rh = @ - 1])

\* Generator.ValueParam(x)
ValueParam(c, x) == load(c, x)

\* Generator.saveRegs(r), Generator.restoreRegs(r)
saveRegs(c, r) == [c EXCEPT !.org.frame = @ + 4 * r]
restoreRegs(c, r) == [c EXCEPT !.org.frame = @ - 4 * r]

\* Generator.PrepCall(x) for a declared procedure x (x.Mode = ClassConst):
\* the state and the value r
PrepCall(c, x) ==
    [c |-> IF c.org.rh > 0 THEN [saveRegs(c, c.org.rh) EXCEPT !.org.rh = 0] ELSE c,
     r |-> c.org.rh]

\* Generator.Call(x, r) for a declared procedure x
Call(c, x, r) ==
    IF ~x.fn
    THEN [c |-> [c EXCEPT !.org.rh = 0], x |-> x]
    ELSE [c |-> [(IF r > 0 THEN restoreRegs(c, r) ELSE c) EXCEPT !.org.rh = r + 1],
          x |-> [Mode |-> classReg, r |-> r]]

\* a variant of CheckRegs that resets without a message
CheckRegsQuiet(c) == [c EXCEPT !.org.rh = 0, !.org.frame = 0]

\* Generator.CheckRegs
CheckRegs(c) ==
    Bind(IF c.org.rh # 0 THEN [MarkC(c, "Reg Stack") EXCEPT !.org.rh = 0] ELSE c, LAMBDA c1 :
    Bind(IF c1.org.PC >= maxCode - 40 THEN MarkC(c1, "program too long") ELSE c1, LAMBDA c2 :
       IF c2.org.frame # 0 THEN [MarkC(c2, "frame error") EXCEPT !.org.frame = 0] ELSE c2))

(***************************************************************************)
(* The parser: statements and expressions, as far as they use registers.   *)
(* A statement is an assignment v := e, the mistaken v = e, or the call of *)
(* a procedure; an expression is made of variables, sums and calls of      *)
(* functions.  drv.last tells what CheckRegs found at the end of the last  *)
(* statement.                                                              *)
(***************************************************************************)
VarItem == [Mode |-> ClassVar, r |-> 0]
ProcItem(fn) == [Mode |-> ClassConst, r |-> 0, fn |-> fn]

\* the number of items that belong to the call being parsed, or to the
\* statement if there is none
Base(p) == IF p.calls = <<>> THEN 0 ELSE p.calls[Len(p.calls)].base
Pop(s, n) == SubSeq(s, 1, Len(s) - n)

\* statSequence after CheckRegs: what it found is kept
StatEnd(c, msg) ==
    \E r \in {CheckRegs(c)} :
       /\ SetCur([r EXCEPT !.prs.stat = "none", !.prs.items = <<>>, !.prs.calls = <<>>])
       /\ drv' = [drv EXCEPT !.at = "CheckRegs",
                             !.last = [rh |-> c.org.rh, frame |-> c.org.frame,
                                       errs |-> c.ors.ErrCnt, msg |-> msg]]

\* statSequence: an identifier followed by :=, by = or by (
StatBegin ==
    /\ prs.stat = "none"
    /\ ors.ErrCnt < MaxErrs
    /\ \E k \in {"assign", "eql", "call"} :
          \E c \in {IF k = "eql" THEN MarkC(Cur, "should be :=") ELSE Cur} :
          \E pc \in {IF k = "call" THEN PrepCall(c, ProcItem(FALSE)) ELSE [c |-> c, r |-> 0]} :
             SetCur([pc.c EXCEPT !.prs.stat = k,
                                 !.prs.calls = IF k = "call"
                                               THEN <<[r |-> pc.r, x |-> ProcItem(FALSE), base |-> 0]>>
                                               ELSE <<>>])
    /\ drv' = [drv EXCEPT !.at = "statement"]
    /\ UNCHANGED <<num, fold, peer, fs>>

\* factor: a variable
FactorVar ==
    /\ prs.stat # "none"
    /\ Len(prs.items) < MaxItems
    /\ prs' = [prs EXCEPT !.items = Append(@, VarItem)]
    /\ UNCHANGED <<ors, num, fold, orb, org, peer, fs, drv>>

\* factor: a function followed by (
FactorPrepCall ==
    /\ prs.stat # "none"
    /\ ors.ErrCnt < MaxErrs
    /\ org.rh < MaxRh
    /\ Len(prs.items) < MaxItems
    /\ Len(prs.calls) < MaxCalls + (IF prs.stat = "call" THEN 1 ELSE 0)
    /\ \E pc \in {PrepCall(Cur, ProcItem(TRUE))} :
          SetCur([pc.c EXCEPT !.prs.calls =
                     Append(@, [r |-> pc.r, x |-> ProcItem(TRUE), base |-> Len(prs.items)])])
    /\ UNCHANGED <<num, fold, peer, fs, drv>>

\* parameter: the expression parsed last is a value parameter of the call
Parameter ==
    /\ prs.calls # <<>>
    /\ ors.ErrCnt < MaxErrs
    /\ Len(prs.items) = Base(prs) + 1
    /\ \E l \in {ValueParam(Cur, prs.items[Len(prs.items)])} :
          SetCur([l.c EXCEPT !.prs.items = Pop(@, 1)])
    /\ UNCHANGED <<num, fold, peer, fs, drv>>

\* factor: the ) of a function's call
FactorCall ==
    /\ prs.calls # <<>>
    /\ ors.ErrCnt < MaxErrs
    /\ prs.calls[Len(prs.calls)].x.fn
    /\ Len(prs.items) = Base(prs)
    /\ \E call \in {prs.calls[Len(prs.calls)]} :
       \E rc \in {Call(Cur, call.x, call.r)} :
          SetCur([rc.c EXCEPT !.prs.calls = Pop(@, 1), !.prs.items = Append(@, rc.x)])
    /\ UNCHANGED <<num, fold, peer, fs, drv>>

\* simpleExpression: the two operands parsed last are added
SimpleExpressionAddOp ==
    /\ Len(prs.items) >= Base(prs) + 2
    /\ ors.ErrCnt < MaxErrs
    /\ \E n \in {Len(prs.items)} :
       \E a \in {AddOp(Cur, prs.items[n - 1], prs.items[n])} :
          SetCur([a.c EXCEPT !.prs.items = Append(Pop(@, 2), a.x)])
    /\ UNCHANGED <<num, fold, peer, fs, drv>>

\* statSequence: the end of v := e
StatAssign ==
    /\ prs.stat = "assign"
    /\ prs.calls = <<>>
    /\ Len(prs.items) = 1
    /\ StatEnd(Store(Cur, VarItem, prs.items[1]), "")
    /\ UNCHANGED <<num, fold, peer, fs>>

\* statSequence: the end of v = e, where nothing is stored
StatEql ==
    /\ prs.stat = "eql"
    /\ prs.calls = <<>>
    /\ Len(prs.items) = 1
    /\ StatEnd(Cur, "should be :=")
    /\ UNCHANGED <<num, fold, peer, fs>>

\* statSequence: the ) of a procedure's call
StatCall ==
    /\ prs.stat = "call"
    /\ Len(prs.calls) = 1
    /\ prs.items = <<>>
    /\ StatEnd(Call(Cur, prs.calls[1].x, prs.calls[1].r).c, "")
    /\ UNCHANGED <<num, fold, peer, fs>>

NextRegs ==
    \/ StatBegin \/ FactorVar \/ FactorPrepCall \/ Parameter \/ FactorCall
    \/ SimpleExpressionAddOp \/ StatAssign \/ StatEql \/ StatCall

SpecRegs == Init /\ [][NextRegs]_vars

C14_AsClaimed == org.rh <= mt - 1

(***************************************************************************)
(* The parser on a text of symbols.  The text is what the scanner delivers *)
(* symbol by symbol, and SymEot for ever once the text has ended; every    *)
(* identifier is the INTEGER variable v.  The symbols are those of         *)
(* assignments, set constructors and numeric CASE statements.              *)
(***************************************************************************)
SymChar == 19
SymInt == 20
SymLbrace == 29
SymIdent == 30
SymIf == 31
SymCase == 34
SymFor == 35
SymComma == 36
SymColon == 37
SymBecomes == 38
SymRparen == 40
SymRbrace == 42
SymThen == 43
SymOf == 44
SymSemicolon == 48
SymEnd == 49
SymBar == 50
SymEot == 65

Symbols ==
    {SymInt, SymLbrace, SymIdent, SymCase, SymComma, SymColon, SymBecomes,
     SymRbrace, SymOf, SymSemicolon, SymEnd, SymBar}

\* Parser.nextSym, that is Scanner.Get: the states it can lead to
nextSym(c) ==
    IF c.ors.eot THEN {[c EXCEPT !.prs.sym = SymEot]}
    ELSE {[c EXCEPT !.ors = nextCh(@), !.prs.sym = s] :
             s \in IF c.ors.pos < MaxSyms THEN Symbols ELSE {}}
         \cup {[c EXCEPT !.ors = [nextCh(@) EXCEPT !.eot = TRUE], !.prs.sym = SymEot]}

\* Parser.check(s, msg)
check(c, s, msg) == IF c.prs.sym = s THEN nextSym(c) ELSE {MarkC(c, msg)}

\* the parser goes on at pc
Goto(c, pc) == [c EXCEPT !.prs.pc = pc, !.prs.idle = 0]
\* a procedure is called: it will return to pc
Calling(c, pc, from, idle) ==
    [c EXCEPT !.prs.stack = Append(@, [pc |-> pc, from |-> from, idle |-> idle])]
\* the procedure returns; the outermost statSequence returns to module()
Return(c) ==
    IF c.prs.stack = <<>> THEN Goto(c, "done")
    ELSE [Goto(c, c.prs.stack[Len(c.prs.stack)].pc) EXCEPT
             !.prs.from = c.prs.stack[Len(c.prs.stack)].from,
             !.prs.idle = c.prs.stack[Len(c.prs.stack)].idle,
             !.prs.stack = Pop(@, 1)]
\* the loop at pc has made an iteration from c to c2 and goes on
Again(c, c2) ==
    IF c2.ors.pos = c.ors.pos THEN [c2 EXCEPT !.prs.idle = @ + 1] ELSE [c2 EXCEPT !.prs.idle = 0]

\* Parser.module: BEGIN, and statSequence is called
ModuleBegin ==
    /\ prs.pc = "none"
    /\ prs.stat = "none"
    /\ \E c \in nextSym(Cur) : SetCur(Goto(c, "stat"))
    /\ UNCHANGED <<num, fold, peer, fs, drv>>

\* Parser.statSequence: the head of its loop
StatSequence ==
    /\ prs.pc = "stat"
    /\ \E c \in {Cur} :
          IF ~((c.prs.sym >= SymIdent /\ c.prs.sym <= SymFor) \/ c.prs.sym >= SymSemicolon)
          THEN SetCur(Goto(MarkC(c, "statement expected"), "statSync"))
          ELSE SetCur(Goto(c, "statement"))
    /\ UNCHANGED <<num, fold, peer, fs, drv>>

\* Parser.statSequence: an iteration of the loop that looks for a statement
StatSync ==
    /\ prs.pc = "statSync"
    /\ prs.idle < MaxSpin
    /\ \E c \in nextSym(Cur) :
          IF c.prs.sym >= SymIdent THEN SetCur(Goto(c, "statement"))
          ELSE SetCur(Again(Cur, c))
    /\ UNCHANGED <<num, fold, peer, fs, drv>>

\* Parser.statSequence: the statement, up to the first procedure it calls
Statement ==
    /\ prs.pc = "statement"
    /\ \/ /\ prs.sym = SymIdent
          /\ \E c1 \in nextSym(Cur) :
                IF c1.prs.sym = SymBecomes
                THEN \E c2 \in nextSym(c1) : SetCur(Goto(Calling(c2, "assign", -1, 0), "factor"))
                ELSE SetCur(Goto(MarkC(c1, "not a procedure"), "statEnd"))
       \/ /\ prs.sym = SymCase
          /\ \E c1 \in nextSym(Cur) :
                IF c1.prs.sym = SymIdent
                THEN \E c2 \in nextSym(c1) :
                     \E c3 \in check(MarkC(c2, "numeric case not implemented"), SymOf, "OF expected") :
                        SetCur(Goto(c3, "skipCase"))
                ELSE \E c2 \in check(MarkC(c1, "ident expected"), SymEnd, "no END") :
                        SetCur(Goto(c2, "statEnd"))
       \/ /\ prs.sym \notin {SymIdent, SymCase}
          /\ SetCur(Goto(Cur, "statEnd"))
    /\ UNCHANGED <<num, fold, peer, fs, drv>>

\* skipCase: an iteration of its loop, or after the colon the call of
\* statSequence
SkipCase ==
    /\ prs.pc = "skipCase"
    /\ prs.idle < MaxSpin
    /\ \E c \in nextSym(Cur) :
          IF prs.sym # SymColon THEN SetCur(Again(Cur, c))
          ELSE SetCur(Goto(Calling(c, "caseBar", -1, 0), "stat"))
    /\ UNCHANGED <<num, fold, peer, fs, drv>>

\* Parser.statSequence: after skipCase, the loop over the cases and END
CaseBar ==
    /\ prs.pc = "caseBar"
    /\ IF prs.sym = SymBar THEN SetCur(Goto(Cur, "skipCase"))
       ELSE \E c \in check(Cur, SymEnd, "no END") : SetCur(Goto(c, "statEnd"))
    /\ UNCHANGED <<num, fold, peer, fs, drv>>

\* Parser.statSequence: the end of the assignment
Assignment ==
    /\ prs.pc = "assign"
    /\ IF prs.form = FormInt THEN SetCur(Goto(Cur, "statEnd"))
       ELSE SetCur(Goto(MarkC(Cur, "illegal assignment"), "statEnd"))
    /\ UNCHANGED <<num, fold, peer, fs, drv>>

\* Parser.statSequence: CheckRegs and the end of its loop
StatSequenceEnd ==
    /\ prs.pc = "statEnd"
    /\ \E c1 \in {CheckRegs(Cur)} :
       \E c2 \in IF c1.prs.sym = SymSemicolon THEN nextSym(c1)
                 ELSE IF c1.prs.sym < SymSemicolon THEN {MarkC(c1, "missing semicolon?")}
                 ELSE {c1} :
          IF c2.prs.sym > SymSemicolon THEN SetCur(Return(c2)) ELSE SetCur(Goto(c2, "stat"))
    /\ UNCHANGED <<num, fold, peer, fs, drv>>

\* Parser.factor: its head
Factor ==
    /\ prs.pc = "factor"
    /\ IF prs.sym < SymChar \/ prs.sym > SymIdent
       THEN SetCur(Goto(MarkC(Cur, "expression expected"), "factorSync"))
       ELSE SetCur(Goto(Cur, "factorBody"))
    /\ UNCHANGED <<num, fold, peer, fs, drv>>

\* Parser.factor: an iteration of the loop that looks for an expression
FactorSync ==
    /\ prs.pc = "factorSync"
    /\ prs.idle < MaxSpin
    /\ \E c \in nextSym(Cur) :
          IF (c.prs.sym >= SymChar /\ c.prs.sym <= SymFor) \/ c.prs.sym >= SymThen
          THEN SetCur(Goto(c, "factorBody"))
          ELSE SetCur(Again(Cur, c))
    /\ UNCHANGED <<num, fold, peer, fs, drv>>

\* Parser.factor: the factor; for { the head of Parser.set
FactorBody ==
    /\ prs.pc = "factorBody"
    /\ \/ /\ prs.sym \in {SymIdent, SymInt}
          /\ \E c \in nextSym(Cur) : SetCur(Return([c EXCEPT !.prs.form = FormInt]))
       \/ /\ prs.sym = SymLbrace
          /\ \E c1 \in nextSym(Cur) :
                IF c1.prs.sym >= SymIf
                THEN \E c2 \in check(IF c1.prs.sym # SymRbrace THEN MarkC(c1, " } missing") ELSE c1,
                                     SymRbrace, "no }") :
                        SetCur(Return([c2 EXCEPT !.prs.form = FormSet]))
                ELSE SetCur(Goto(Calling(c1, "set", -1, 0), "factor"))
       \/ /\ prs.sym \notin {SymIdent, SymInt, SymLbrace}
          /\ SetCur(Return([MarkC(Cur, "not a factor") EXCEPT !.prs.form = FormInt]))
    /\ UNCHANGED <<num, fold, peer, fs, drv>>

\* Parser.set: after an element, the head of the loop over the elements and
\* the next element's call, or the end of the set in Parser.factor
SetElements ==
    /\ prs.pc = "set"
    /\ prs.idle < MaxSpin
    /\ \E c0 \in {IF prs.form # FormInt THEN MarkC(Cur, "not Int") ELSE Cur} :
          IF c0.prs.sym < SymRparen \/ c0.prs.sym > SymRbrace
          THEN \E c1 \in IF c0.prs.sym = SymComma THEN nextSym(c0)
                         ELSE IF c0.prs.sym # SymRbrace THEN {MarkC(c0, "missing comma")}
                         ELSE {c0} :
                  SetCur(Goto(Calling(c1, "set", c0.ors.pos,
                                      IF c0.prs.from = c0.ors.pos THEN c0.prs.idle + 1 ELSE 0),
                              "factor"))
          ELSE \E c1 \in check(c0, SymRbrace, "no }") :
                  SetCur(Return([c1 EXCEPT !.prs.form = FormSet]))
    /\ UNCHANGED <<num, fold, peer, fs, drv>>

NextLoops ==
    \/ ModuleBegin \/ StatSequence \/ StatSync \/ Statement \/ SkipCase \/ CaseBar
    \/ Assignment \/ StatSequenceEnd \/ Factor \/ FactorSync \/ FactorBody \/ SetElements

SpecLoops == Init /\ [][NextLoops]_vars

(***************************************************************************)
(* C15: the loops of the parser.                                           *)
(***************************************************************************)
\* C15 as claimed: no loop of the parser makes an iteration that neither
\* reads a symbol nor leaves the loop.
C15_AsClaimed == prs.idle = 0

(***************************************************************************)
(* Two compilations run side by side in one directory: the variables hold  *)
(* the instance that compiles M, peer the instance that compiles N, which  *)
(* may import M.  A step is one piece of module() between two accesses to  *)
(* the files: os.Open, the first read, os.Create and the write are         *)
(* separate system calls, and the steps of the two compilations interleave.*)
(* The state of a compilation besides its instance is q = [mod, imp, entry,*)
(* pc, key, smb, rsc, imps, err]: its module, whether it imports M, its    *)
(* declaration, its place, the key Export returned, the symbol file and    *)
(* the object file still to write, the imports Close writes to the object  *)
(* file, and whether Compile returned an error (a recovered panic).        *)
(***************************************************************************)
\* the files of the directory before any compilation
ParNoFiles == [smb |-> [m \in {IdM, IdN} |-> NoFile], rsc |-> [m \in {IdM, IdN} |-> NoObjFile]]

\* an object file that os.Create has made and nothing was written to yet
EmptyObjFile == [NoObjFile EXCEPT !.name = <<0>>]

\* a compilation before module()
ParProc(mod, imp, entry) ==
    [mod |-> mod, imp |-> imp, entry |-> entry, pc |-> "head", key |-> 0,
     smb |-> <<>>, rsc |-> NoObjFile, imps |-> <<>>, err |-> FALSE]

\* the names and keys of the imported modules, as Close writes them
ImportsOf(c) ==
    LET IsMod(o) == o.Class = ClassMod
    IN Bind(SelectSeq(TopScope(c.orb), IsMod), LAMBDA ms :
          [k \in 1 .. Len(ms) |-> [name |-> ms[k].OrgName, key |-> ms[k].Val]])

\* the next step of the compilation q with the instance c and the files
\* fsys: the instance, the compilation and the files afterwards
ParStep(c, q, fsys) ==
    IF q.pc = "head"
    THEN [c |-> moduleHead(ReadText(c), 1, q.mod),
          q |-> [q EXCEPT !.pc = IF q.imp THEN "open" ELSE "decl"], fs |-> fsys]
    ELSE IF q.pc = "open"
    THEN IF fsys.smb[IdM] = NoFile
         THEN [c |-> MarkC(ReadText(c), "import not available"),
               q |-> [q EXCEPT !.pc = "decl"], fs |-> fsys]
         ELSE [c |-> ReadText(c), q |-> [q EXCEPT !.pc = "read"], fs |-> fsys]
    ELSE IF q.pc = "read"
    THEN IF Len(fsys.smb[IdM]) < 4
         THEN [c |-> c, q |-> [q EXCEPT !.pc = "done", !.err = TRUE], fs |-> fsys]
         ELSE [c |-> Import(c, fsys, IdM, IdM), q |-> [q EXCEPT !.pc = "decl"], fs |-> fsys]
    ELSE IF q.pc = "decl"
    THEN [c |-> endDeclarations(Declare(ReadText(c), q.entry)),
          q |-> [q EXCEPT !.pc = "export"], fs |-> fsys]
    ELSE IF q.pc = "export"
    THEN Bind([ReadText(c) EXCEPT !.org = Header(@)], LAMBDA c0 :
         IF c0.ors.ErrCnt = 0 /\ c0.prs.version # 0
         THEN Bind(Export(c0, fsys, q.mod, c0.prs.newSF, "ok"), LAMBDA e :
              Bind([e.c EXCEPT !.prs.newSF = e.newSF], LAMBDA c1 :
                 IF e.panic
                 THEN [c |-> c1, q |-> [q EXCEPT !.pc = "done", !.err = TRUE], fs |-> fsys]
                 ELSE IF e.newSF
                 THEN [c |-> c1,
                       q |-> [q EXCEPT !.pc = "smbWrite", !.key = e.key, !.smb = e.fs.smb[q.mod]],
                       fs |-> [fsys EXCEPT !.smb[q.mod] = <<>>]]
                 ELSE [c |-> c1, q |-> [q EXCEPT !.pc = "close", !.key = e.key], fs |-> fsys]))
         ELSE [c |-> c0, q |-> [q EXCEPT !.pc = "close"], fs |-> fsys])
    ELSE IF q.pc = "smbWrite"
    THEN [c |-> c, q |-> [q EXCEPT !.pc = "close", !.smb = <<>>],
          fs |-> [fsys EXCEPT !.smb[q.mod] = q.smb]]
    ELSE IF q.pc = "close"
    THEN IF c.ors.ErrCnt = 0
         THEN Bind(Close(c, fsys, q.mod, q.key, c.prs.exNo, "ok"), LAMBDA cl :
                 [c |-> cl.c,
                  q |-> [q EXCEPT !.pc = "rscWrite", !.rsc = cl.fs.rsc[q.mod], !.imps = ImportsOf(c)],
                  fs |-> [fsys EXCEPT !.rsc[q.mod] = EmptyObjFile]])
         ELSE [c |-> [c EXCEPT !.orb = CloseScope(@), !.prs.pbsList = <<>>],
               q |-> [q EXCEPT !.pc = "done"], fs |-> fsys]
    ELSE IF q.pc = "rscWrite"
    THEN [c |-> [c EXCEPT !.orb = CloseScope(@), !.prs.pbsList = <<>>],
          q |-> [q EXCEPT !.pc = "done", !.rsc = NoObjFile],
          fs |-> [fsys EXCEPT !.rsc[q.mod] = q.rsc]]
    ELSE [c |-> c, q |-> q, fs |-> fsys]

RECURSIVE ParRun(_, _, _)
\* Compile run from the compilation q to its end, nothing else running
ParRun(c, q, fsys) ==
    IF q.pc = "done" THEN [c |-> c, q |-> q, fs |-> fsys]
    ELSE Bind(ParStep(c, q, fsys), LAMBDA r : ParRun(r.c, r.q, r.fs))

\* the symbol file of  MODULE M; CONST a* = 1; END M.
OldSymbolFile ==
    ParRun(NewCompiler(FALSE), ParProc(IdM, FALSE, ModuleMenu[1]), ParNoFiles).fs.smb[IdM]

\* the declaration of N
PeerEntry == DConst(Pub(Idb), IntLit(3))

\* M is compiled with or without -s, with one of its two texts, over an
\* older symbol file or none; N imports M or not
InitPar ==
    /\ InitScanner /\ InitNum /\ InitFold
    /\ orb = NewBase
    /\ org = NewGenerator
    /\ peer = NewCompiler(FALSE)
    /\ \E newSF \in BOOLEAN, old \in BOOLEAN, imp \in BOOLEAN, n \in 1 .. Len(ModuleMenu) :
          /\ prs = NewParser(newSF)
          /\ fs = [ParNoFiles EXCEPT !.smb[IdM] = IF old THEN OldSymbolFile ELSE NoFile]
          /\ drv = [mode |-> "par", at |-> "par", newSF |-> newSF, fs0 |-> fs,
                    q |-> << ParProc(IdM, FALSE, ModuleMenu[n]), ParProc(IdN, imp, PeerEntry) >>,
                    q0 |-> << ParProc(IdM, FALSE, ModuleMenu[n]), ParProc(IdN, imp, PeerEntry) >>]

\* the instance of compilation i
ParCompiler(i) == IF i = 1 THEN Cur ELSE peer

\* compilation i makes its next step
ParApply(i) ==
    \E r \in {ParStep(ParCompiler(i), drv.q[i], fs)} :
       /\ IF i = 1 THEN SetCur(r.c) /\ peer' = peer
          ELSE peer' = r.c /\ UNCHANGED <<ors, orb, org, prs>>
       /\ fs' = r.fs
       /\ drv' = [drv EXCEPT !.q[i] = r.q]
       /\ UNCHANGED <<num, fold>>

ParAt(pc) == {i \in 1 .. 2 : drv.mode = "par" /\ drv.q[i].pc = pc}

\* module() up to the import list
ParModuleHead == \E i \in ParAt("head") : ParApply(i)
\* Import: os.Open
ParImportOpen == \E i \in ParAt("open") : ParApply(i)
\* Import: the file is read
ParImportRead == \E i \in ParAt("read") : ParApply(i)
\* declarations
ParDeclarations == \E i \in ParAt("decl") : ParApply(i)
\* Header, and Export up to os.Create
ParExport == \E i \in ParAt("export") : ParApply(i)
\* Export: io.Copy
ParExportWrite == \E i \in ParAt("smbWrite") : ParApply(i)
\* Close up to os.Create
ParClose == \E i \in ParAt("close") : ParApply(i)
\* Close: Flush, and the end of module()
ParCloseWrite == \E i \in ParAt("rscWrite") : ParApply(i)

NextPar ==
    \/ ParModuleHead
    \/ ParImportOpen
    \/ ParImportRead
    \/ ParDeclarations
    \/ ParExport
    \/ ParExportWrite
    \/ ParClose
    \/ ParCloseWrite

SpecPar == InitPar /\ [][NextPar]_vars

\* what two compilations leave: the files, and of each its error count,
\* whether it returned an error, and the imports of its object file
ParOutcome(c1, q1, c2, q2, fsys) ==
    [fs |-> fsys, errs |-> <<c1.ors.ErrCnt, c2.ors.ErrCnt>>, err |-> <<q1.err, q2.err>>,
     imps |-> <<q1.imps, q2.imps>>]

\* the two compilations run one after the other, M first or N first
ParSequential(first) ==
    LET C1 == NewCompiler(drv.newSF)
        C2 == NewCompiler(FALSE)
    IN IF first = 1
       THEN Bind(ParRun(C1, drv.q0[1], drv.fs0), LAMBDA r1 :
            Bind(ParRun(C2, drv.q0[2], r1.fs), LAMBDA r2 :
               ParOutcome(r1.c, r1.q, r2.c, r2.q, r2.fs)))
       ELSE Bind(ParRun(C2, drv.q0[2], drv.fs0), LAMBDA r2 :
            Bind(ParRun(C1, drv.q0[1], r2.fs), LAMBDA r1 :
               ParOutcome(r1.c, r1.q, r2.c, r2.q, r1.fs)))

ParDone == drv.q[1].pc = "done" /\ drv.q[2].pc = "done"

\* C16: two compilations of distinct modules with instances of their own
\* may run concurrently: however their steps interleave, the error counts,
\* the symbol files and the object files at the end are those of one of the
\* two sequential runs, whether or not N imports the symbol file of M.
C16_AsClaimed ==
    ParDone =>
       ParOutcome(Cur, drv.q[1], peer, drv.q[2], fs) \in {ParSequential(1), ParSequential(2)}

(***************************************************************************)
(* declarations(), by its three parts: CONST, TYPE and VAR are tested once *)
(* each and in this order, and each part loops while an identifier comes.  *)
(* prs.form is the part the parser stands at (1 CONST, 2 TYPE, 3 VAR,      *)
(* 4 the end), prs.pc tells whether it is inside the loop of that part,    *)
(* prs.sym is the symbol read last; the text is given symbol by symbol.    *)
(***************************************************************************)
SymConst == 58
SymType == 59
SymVar == 60

\* the declarations of the texts, by the part they can stand in: forward
\* and backward pointers among the types and among the variables
DeclMenu ==
    << DConst(Pub(Ida), IntLit(1)),
       DType(Pub(IdP), TPointer(IdR)),
       DType(Pub(IdR), TRecord(<<>>, <<>>)),
       DType(Pub(IdE), TRecord(<<>>, <<>>)),
       DVar(<<Pub(Idv)>>, TPointer(IdE)),
       DVar(<<Pub(Idw)>>, TPointer(IdR)) >>

\* the symbol that opens part k, and the kind of declaration it holds
PartSym(k) == IF k = 1 THEN SymConst ELSE IF k = 2 THEN SymType ELSE SymVar
PartKind(k) == IF k = 1 THEN "const" ELSE IF k = 2 THEN "type" ELSE "var"

\* the entries of the menu not yet declared that part k can hold
PartEntries(k) ==
    {i \in 1 .. Len(DeclMenu) : DeclMenu[i].kind = PartKind(k) /\ i \notin drv.taken}

\* the symbols that can come next where part k stands: an identifier only
\* while the text has fewer than MaxDecls declarations
DeclSymbols(k) ==
    {SymConst, SymType, SymVar, SymEnd}
       \cup (IF PartEntries(k) # {} /\ Cardinality(drv.taken) < MaxDecls THEN {SymIdent} ELSE {})

\* module() has read the head of M; declarations begins (pbsList = nil)
InitDecl ==
    /\ InitNum /\ InitFold
    /\ peer = NewCompiler(FALSE)
    /\ fs = NoFiles
    /\ drv = [mode |-> "decl", at |-> "decl", taken |-> {}, order |-> <<>>]
    /\ \E sym \in {SymConst, SymType, SymVar, SymEnd} :
       \E c \in {moduleHead(ReadText(NewCompiler(FALSE)), 1, IdM)} :
          /\ ors = c.ors
          /\ orb = c.orb
          /\ org = c.org
          /\ prs = [c.prs EXCEPT !.pc = "part", !.form = 1, !.sym = sym]

\* if p.sym == ors.SymConst (SymType, SymVar) { p.nextSym() ...
DeclEnterPart ==
    /\ drv.mode = "decl"
    /\ prs.pc = "part" /\ prs.form <= 3
    /\ prs.sym = PartSym(prs.form)
    /\ \E sym \in DeclSymbols(prs.form) :
          SetCur([ReadText(Cur) EXCEPT !.prs.pc = "loop", !.prs.sym = sym])
    /\ UNCHANGED <<drv, peer, fs, num, fold>>

\* the symbol does not open this part: on to the next if
DeclSkipPart ==
    /\ drv.mode = "decl"
    /\ prs.pc = "part" /\ prs.form <= 3
    /\ prs.sym # PartSym(prs.form)
    /\ SetCur([Cur EXCEPT !.prs.form = @ + 1])
    /\ UNCHANGED <<drv, peer, fs, num, fold>>

\* one round of the loop of a part: for p.sym == ors.SymIdent { ... }
DeclRound ==
    /\ drv.mode = "decl"
    /\ prs.pc = "loop"
    /\ prs.sym = SymIdent
    /\ \E i \in PartEntries(prs.form) :
       \E sym \in DeclSymbols(prs.form) \ (IF PartEntries(prs.form) = {i} THEN {SymIdent} ELSE {}) :
          /\ SetCur([Declare(ReadText(Cur), DeclMenu[i]) EXCEPT !.prs.sym = sym])
          /\ drv' = [drv EXCEPT !.taken = @ \cup {i}, !.order = Append(@, i)]
    /\ UNCHANGED <<peer, fs, num, fold>>

\* the loop of a part ends at a symbol that is no identifier
DeclLeavePart ==
    /\ drv.mode = "decl"
    /\ prs.pc = "loop"
    /\ prs.sym # SymIdent
    /\ SetCur([Cur EXCEPT !.prs.pc = "part", !.prs.form = @ + 1])
    /\ UNCHANGED <<drv, peer, fs, num, fold>>

\* the end of declarations: alignment, the pointer bases still undefined,
\* and the test of the order of the parts
declarationsEnd(c) ==
    Bind(endDeclarations(c), LAMBDA c1 :
       IF c1.prs.sym > SymConst /\ c1.prs.sym <= SymVar
       THEN MarkC(c1, "declaration in bad order") ELSE c1)

DeclReturn ==
    /\ drv.mode = "decl"
    /\ prs.pc = "part" /\ prs.form = 4
    /\ SetCur([declarationsEnd(Cur) EXCEPT !.prs.pc = "declared"])
    /\ UNCHANGED <<drv, peer, fs, num, fold>>

NextDecl ==
    \/ DeclEnterPart
    \/ DeclSkipPart
    \/ DeclRound
    \/ DeclLeavePart
    \/ DeclReturn

SpecDecl == InitDecl /\ [][NextDecl]_vars

\* the pointer type of entry j of the forward list, and its base
PbsType(j) == orb.types[prs.pbsList[j].typ]
PbsBase(j) == orb.types[PbsType(j).Base]

\* whether entry j of the forward list is the type of a variable
PbsOfVar(j) ==
    \E k \in 1 .. Len(TopScope(orb)) :
       TopScope(orb)[k].Class = ClassVar /\ TopScope(orb)[k].Type = prs.pbsList[j].typ

\* whether the base of entry j is the record type declared by its name
PbsPatched(j) ==
    \E k \in 1 .. Len(TopScope(orb)) :
       /\ TopScope(orb)[k].Class = ClassTyp
       /\ TopScope(orb)[k].Name = prs.pbsList[j].name
       /\ TopScope(orb)[k].Type = PbsType(j).Base
       /\ PbsBase(j).Form = FormRecord

\* whether a record type of the name of entry j is declared
PbsDeclared(j) ==
    \E k \in 1 .. Len(TopScope(orb)) :
       /\ TopScope(orb)[k].Class = ClassTyp
       /\ TopScope(orb)[k].Name = prs.pbsList[j].name
       /\ orb.types[TopScope(orb)[k].Type].Form = FormRecord

\* C17 as claimed: a forward pointer of a VAR part that precedes the TYPE
\* part is patched as well: when declarations has returned from
\* VAR p: POINTER TO R;  before  TYPE R = RECORD END;  no error is marked
\* and the base of p's type is the record R.
C17_AsClaimed ==
    prs.pc = "declared" /\ prs.sym = SymType =>
       \A j \in 1 .. Len(prs.pbsList) :
          PbsOfVar(j) => ors.ErrCnt = 0 /\ PbsBase(j).Form = FormRecord

\* C17 amended: a forward pointer is patched when the record type of its
\* name is declared later in the TYPE part; the parts are read once, in the
\* order CONST, TYPE, VAR, so a forward pointer of the VAR part is never
\* patched: its base stays INTEGER and declarations marks an error, and
\* declarations that return at TYPE or VAR have marked an error.
C17_ForwardPointers ==
    prs.pc = "declared" =>
       /\ \A j \in 1 .. Len(prs.pbsList) :
             /\ PbsOfVar(j) => ~PbsDeclared(j)
             /\ IF PbsDeclared(j) THEN PbsPatched(j)
                ELSE PbsType(j).Base = IntType /\ ors.ErrCnt >= 1
       /\ (\A j \in 1 .. Len(prs.pbsList) : PbsDeclared(j)) /\ prs.sym \notin {SymType, SymVar}
             => ors.ErrCnt = 0
       /\ prs.sym \in {SymType, SymVar} => ors.ErrCnt >= 1

\* TYPE P = POINTER TO R; R = RECORD END; VAR v: POINTER TO E; TYPE ...
C17_Witness ==
    /\ prs.pc = "declared"
    /\ prs.sym = SymType
    /\ drv.order = <<2, 3, 5>>
    /\ Len(prs.pbsList) = 2
    /\ PbsPatched(1) /\ ~PbsOfVar(1)
    /\ PbsOfVar(2) /\ PbsType(2).Base = IntType
    /\ ors.ErrCnt = 2
    /\ ors.markMsg = "declaration in bad order"

(***************************************************************************)
(* C18: the empty module  MODULE M; END M.  No declaration is parsed       *)
(* (drv.n = 0) and no statement: the code is what Header and Close emit.   *)
(***************************************************************************)
\* a step in which module() ends the empty module of version 1, read
\* without errors
IsEmptyModuleEnd == IsModuleEnd /\ drv.n = 0 /\ ors.ErrCnt = 0 /\ prs.version = 1

\* C18 as claimed: compiling the empty module (version 1) in a directory
\* without files of M ends with zero errors, and the code length written to
\* the object file is 2 words.
C18_AsClaimed ==
    [][IsEmptyModuleEnd /\ fs.smb[IdM] = NoFile /\ ~drv'.last.panic
          => /\ drv'.last.marks = 0
             /\ drv'.last.closed
             /\ fs'.rsc[IdM].PC = 2]_vars

\* C18 amended: the code length written for the empty module of version 1
\* is 5 words, 2 of Header (entry 0) and 3 of Close; the compilation ends
\* with zero errors and writes the object file unless Export marks "new
\* symbol file inhibited", which leaves the files as they are.
C18_EmptyModule ==
    [][IsEmptyModuleEnd /\ ~drv'.last.panic
          => IF ~prs.newSF /\ KeyChanged
             THEN /\ drv'.last.marks = 1
                  /\ drv'.last.msg = "new symbol file inhibited"
                  /\ ~drv'.last.closed
                  /\ fs' = fs
             ELSE /\ drv'.last.marks = 0
                  /\ drv'.last.closed
                  /\ fs'.rsc[IdM].PC = 5
                  /\ fs'.rsc[IdM].entry = 0
                  /\ fs'.rsc[IdM].name = IdM]_vars

\* the empty module was compiled without errors and its object file holds
\* 5 words of code
C18_Witness ==
    /\ drv.n = 0
    /\ drv.last.errs = 0 /\ drv.last.marks = 0
    /\ drv.last.version = 1
    /\ drv.last.closed /\ ~drv.last.panic
    /\ fs.rsc[IdM].PC = 5
    /\ fs.rsc[IdM].version = 1

(***************************************************************************)
(* The scanner: identifiers.  A text is the sequence of the characters of  *)
(* an identifier; the character after it is no letter and no digit.  Both  *)
(* scanners read one identifier each: the variables the first, peer the    *)
(* second.                                                                 *)
(***************************************************************************)
IdLen == 32

RECURSIVE identifierLoop(_, _, _, _)
\* the loop of identifier() at character i of text, with the buffer buf
identifierLoop(s, text, i, buf) ==
    Bind(IF Len(buf) < IdLen - 1 THEN Append(buf, text[i]) ELSE buf, LAMBDA buf1 :
       IF i = Len(text) THEN [nextCh(s) EXCEPT !.Id = buf1]
       ELSE identifierLoop(nextCh(s), text, i + 1, buf1))

\* the first n elements of the sequence text, all of them if it has fewer
Prefix(text, n) == SubSeq(text, 1, IF Len(text) < n THEN Len(text) ELSE n)

\* a variant of identifier() that keeps IdLen characters
identifierKeepsIdLen(s, text) ==
    [identifierLoop(s, text, 1, <<>>) EXCEPT !.Id = Prefix(text, IdLen)]

\* Scanner.identifier() on the identifier text, which is no keyword: the
\* scanner afterwards (the symbol is SymIdent)
identifier(s, text) == identifierLoop(s, text, 1, <<>>)

\* the identifiers of the texts: n letters a, or with one b among them
IdentText(n, k) == [j \in 1 .. n |-> IF j = k THEN 98 ELSE 97]
IdentTexts == {IdentText(n, k) : n \in MinIdChars .. MaxIdChars, k \in 0 .. MaxIdChars}

InitIdent ==
    /\ InitScanner /\ InitNum /\ InitFold
    /\ orb = NewBase
    /\ org = NewGenerator
    /\ prs = NewParser(FALSE)
    /\ peer = NewCompiler(FALSE)
    /\ fs = NoFiles
    /\ drv = [mode |-> "ident", at |-> "first", texts |-> <<>>]

\* Get reads an identifier
IdentFirst ==
    /\ drv.mode = "ident"
    /\ drv.at = "first"
    /\ \E text \in IdentTexts :
          /\ ors' = identifier(ors, text)
          /\ drv' = [drv EXCEPT !.at = "second", !.texts = <<text>>]
    /\ UNCHANGED <<num, fold, orb, org, prs, peer, fs>>

\* Get of the second scanner reads an identifier
IdentSecond ==
    /\ drv.mode = "ident"
    /\ drv.at = "second"
    /\ \E text \in IdentTexts :
          /\ peer' = [peer EXCEPT !.ors = identifier(@, text)]
          /\ drv' = [drv EXCEPT !.at = "done", !.texts = Append(@, text)]
    /\ UNCHANGED <<ors, num, fold, orb, org, prs, fs>>

NextIdent ==
    \/ IdentFirst
    \/ IdentSecond

SpecIdent == InitIdent /\ [][NextIdent]_vars

\* after an identifier was read from text: no error, the text is read to
\* its end, and Id holds its first n characters
IdentKeeps(s, text, n) ==
    /\ s.ErrCnt = 0
    /\ s.nMarks = 0
    /\ s.pos = Len(text)
    /\ s.Id = Prefix(text, n)

\* C19 as claimed: an identifier of more than 32 characters is accepted
\* without error and Id holds its first 32 characters, one of at most 32
\* characters is kept whole, and two identifiers are the same name exactly
\* when their first 32 characters agree.
C19_AsClaimed ==
    /\ drv.at \in {"second", "done"} => IdentKeeps(ors, drv.texts[1], IdLen)
    /\ drv.at = "done" =>
          /\ IdentKeeps(peer.ors, drv.texts[2], IdLen)
          /\ ors.Id = peer.ors.Id <=> Prefix(drv.texts[1], IdLen) = Prefix(drv.texts[2], IdLen)

\* C19 amended: an identifier of more than 31 characters is accepted
\* without error and Id holds its first 31 (IdLen - 1) characters, one of at
\* most 31 characters is kept whole, and two identifiers are the same name
\* exactly when their first 31 characters agree.
C19_SignificantChars ==
    /\ drv.at \in {"second", "done"} => IdentKeeps(ors, drv.texts[1], IdLen - 1)
    /\ drv.at = "done" =>
          /\ IdentKeeps(peer.ors, drv.texts[2], IdLen - 1)
          /\ ors.Id = peer.ors.Id
                <=> Prefix(drv.texts[1], IdLen - 1) = Prefix(drv.texts[2], IdLen - 1)

\* two identifiers of 32 and 33 characters that differ in character 32 are
\* the same name of 31 characters
C19_Witness ==
    /\ drv.at = "done"
    /\ drv.texts = <<IdentText(IdLen, IdLen), IdentText(IdLen + 1, 0)>>
    /\ ors.Id = peer.ors.Id
    /\ Len(ors.Id) = IdLen - 1
    /\ ors.ErrCnt = 0 /\ peer.ors.ErrCnt = 0

(***************************************************************************)
(* The scanner: numbers.  A text is the sequence of the digits of a        *)
(* literal (0 .. 9 each); the character after it is none of H, R, X, and   *)
(* either two dots (a range) or something else.                            *)
(***************************************************************************)
maxDigits == 16
max == 2147483647

RECURSIVE decimalLoop(_, _, _, _)
\* the loop of decimalInteger at digit i, with the value k so far
decimalLoop(s, digits, i, k) ==
    IF i > Len(digits) THEN [s |-> s, k |-> k]
    ELSE Bind(digits[i], LAMBDA d :
         IF d < 10
         THEN IF k <= (max - d) \div 10
              THEN decimalLoop(s, digits, i + 1, k * 10 + d)
              ELSE decimalLoop(Mark(s, "too large"), digits, i + 1, 0)
         ELSE decimalLoop(Mark(s, "bad integer"), digits, i + 1, k))

RECURSIVE decimalLoopStrict(_, _, _, _)
\* a variant of the loop that compares with < instead of <=
decimalLoopStrict(s, digits, i, k) ==
    IF i > Len(digits) THEN [s |-> s, k |-> k]
    ELSE Bind(digits[i], LAMBDA d :
         IF k < (max - d) \div 10
         THEN decimalLoopStrict(s, digits, i + 1, k * 10 + d)
         ELSE decimalLoopStrict(Mark(s, "too large"), digits, i + 1, 0))

\* a variant of decimalInteger with the strict comparison
decimalIntegerStrict(s, digits) == decimalLoopStrict(s, digits, 1, 0)

\* Scanner.decimalInteger(digits): the scanner afterwards and the value
decimalInteger(s, digits) == decimalLoop(s, digits, 1, 0)

RECURSIVE numberLoop(_, _, _, _)
\* the first loop of number() at character i of text, with the digits d
numberLoop(s, text, i, d) ==
    Bind(IF Len(d) < maxDigits THEN [s |-> s, d |-> Append(d, text[i])]
         ELSE [s |-> Mark(s, "too many digits"), d |-> <<>>], LAMBDA r :
       IF i = Len(text) THEN [s |-> nextCh(r.s), d |-> r.d]
       ELSE numberLoop(nextCh(r.s), text, i + 1, r.d))

\* Scanner.number() on the digits text, followed by two dots (dd) or by a
\* character that ends the number: the scanner afterwards (the symbol is
\* SymInt)
number(s, text, dd) ==
    Bind(numberLoop([s EXCEPT !.Ival = 0], text, 1, <<>>), LAMBDA n :
    Bind(decimalInteger(IF dd THEN nextCh(n.s) ELSE n.s, n.d), LAMBDA r :
       [r.s EXCEPT !.Ival = r.k]))

\* the texts begin with one of these and go on digit by digit
LitSeeds ==
    { <<0>>, <<1>>, <<9>>,
      <<2, 1, 4, 7, 4, 8, 3, 6, 4>>, <<0, 0, 2, 1, 4, 7, 4, 8, 3, 6, 4>>,
      <<2, 1, 4, 7, 4, 8, 3, 6, 3>>, <<2, 1, 4, 7, 4, 8, 3, 6, 5>>,
      <<4, 2, 9, 4, 9, 6, 7, 2, 9>> }

RECURSIVE Strip(_)
\* the digits of text without the leading zeros
Strip(text) == IF text # <<>> /\ text[1] = 0 THEN Strip(Tail(text)) ELSE text

\* the digits that may follow text: every digit where it decides between
\* max and max + 1, a small and a large one elsewhere
LitDigits(text) == IF Strip(text) = <<2, 1, 4, 7, 4, 8, 3, 6, 4>> THEN 0 .. 9 ELSE {0, 9}

InitLit ==
    /\ InitScanner /\ InitNum /\ InitFold
    /\ orb = NewBase
    /\ org = NewGenerator
    /\ prs = NewParser(FALSE)
    /\ peer = NewCompiler(FALSE)
    /\ fs = NoFiles
    /\ \E text \in LitSeeds : drv = [mode |-> "lit", at |-> "text", text |-> text, n |-> 0]

\* the text has one more digit
LitExtend ==
    /\ drv.mode = "lit"
    /\ drv.at = "text"
    /\ drv.n < MaxExtend
    /\ \E d \in LitDigits(drv.text) : drv' = [drv EXCEPT !.text = Append(@, d), !.n = @ + 1]
    /\ UNCHANGED <<ors, num, fold, orb, org, prs, peer, fs>>

\* Get reads the number
LitScan ==
    /\ drv.mode = "lit"
    /\ drv.at = "text"
    /\ \E dd \in BOOLEAN : ors' = number(ors, drv.text, dd)
    /\ drv' = [drv EXCEPT !.at = "scanned"]
    /\ UNCHANGED <<num, fold, orb, org, prs, peer, fs>>

NextLit ==
    \/ LitExtend
    \/ LitScan

SpecLit == InitLit /\ [][NextLit]_vars

\* the digits of max
MaxDigitsOf == <<2, 1, 4, 7, 4, 8, 3, 6, 4, 7>>

\* whether the value of the literal text exceeds max, by its digits
Exceeds(text) ==
    LET t == Strip(text)
    IN \/ Len(t) > Len(MaxDigitsOf)
       \/ /\ Len(t) = Len(MaxDigitsOf)
          /\ \E i \in 1 .. Len(t) :
                t[i] > MaxDigitsOf[i] /\ \A j \in 1 .. i - 1 : t[j] = MaxDigitsOf[j]

RECURSIVE ValueOf(_)
\* the value of the digits t, which does not exceed max
ValueOf(t) == IF t = <<>> THEN 0 ELSE ValueOf(SubSeq(t, 1, Len(t) - 1)) * 10 + t[Len(t)]

\* C20: for every decimal integer literal of at most 16 digits, "too large"
\* is marked if and only if the value of the literal exceeds 2^31 - 1
\* (2147483647 is accepted, 2147483648 raises it), and the Ival delivered
\* lies in 0 .. 2^31 - 1 (it is the value of a literal that is accepted).
C20_TooLarge ==
    drv.at = "scanned" /\ Len(drv.text) <= maxDigits =>
       /\ ors.nMarks >= 1 <=> Exceeds(drv.text)
       /\ ors.nMarks >= 1 => ors.markMsg = "too large"
       /\ ors.ErrCnt = ors.nMarks
       /\ ors.Ival \in 0 .. max
       /\ ~Exceeds(drv.text) => ors.Ival = ValueOf(Strip(drv.text))

\* 2147483648 was read and "too large" marked
C20_Witness ==
    /\ drv.at = "scanned"
    /\ drv.text = <<2, 1, 4, 7, 4, 8, 3, 6, 4, 8>>
    /\ ors.nMarks = 1
    /\ ors.markMsg = "too large"
    /\ ors.Ival = 0

(***************************************************************************)
(* The scanner: comments.  The text is a sequence of characters kept by    *)
(* the driver; the scanner has read its first pos characters, ch is the    *)
(* last one read (0 before the first and after the last).                  *)
(***************************************************************************)
SymTimes == 1
SymLparen == 27

ChLparen == 40
ChRparen == 41
ChStar == 42

\* s.ch in the text
chIn(s, text) == IF s.pos = 0 \/ s.pos > Len(text) THEN 0 ELSE text[s.pos]

\* Scanner.nextCh() in the text: ReadByte fails after the last character
nextChIn(s, text) == [s EXCEPT !.pos = @ + 1, !.eot = s.pos + 1 > Len(text)]

RECURSIVE comment(_, _)
RECURSIVE commentLoop(_, _)
RECURSIVE commentInner(_, _)
RECURSIVE commentStars(_, _)

\* for s.ch == '*' { s.nextCh() }
commentStars(s, text) ==
    IF chIn(s, text) = ChStar THEN commentStars(nextChIn(s, text), text) ELSE s

\* for !s.eot && s.ch != '*' { ... }
commentInner(s, text) ==
    IF ~s.eot /\ chIn(s, text) # ChStar
    THEN IF chIn(s, text) = ChLparen
         THEN Bind(nextChIn(s, text), LAMBDA s1 :
                 IF chIn(s1, text) = ChStar THEN commentInner(comment(s1, text), text)
                 ELSE commentInner(s1, text))
         ELSE commentInner(nextChIn(s, text), text)
    ELSE s

\* the outer loop of comment()
commentLoop(s, text) ==
    Bind(commentStars(commentInner(s, text), text), LAMBDA s1 :
       IF chIn(s1, text) = ChRparen \/ s1.eot THEN s1 ELSE commentLoop(s1, text))

\* a variant of comment() that does not look for comments inside
commentFlat(s, text) ==
    LET RECURSIVE flat(_)
        flat(s0) ==
           IF s0.eot THEN s0
           ELSE IF chIn(s0, text) = ChStar /\ chIn(nextChIn(s0, text), text) = ChRparen
           THEN nextChIn(s0, text)
           ELSE flat(nextChIn(s0, text))
    IN Bind(flat(nextChIn(s, text)), LAMBDA s1 :
          IF ~s1.eot THEN nextChIn(s1, text) ELSE Mark(s1, "unterminated comment"))

\* Scanner.comment(), called with s.ch = '*'
comment(s, text) ==
    Bind(commentLoop(nextChIn(s, text), text), LAMBDA s1 :
       IF ~s1.eot THEN nextChIn(s1, text) ELSE Mark(s1, "unterminated comment"))

RECURSIVE Get(_, _)
\* Scanner.Get() on a text of parentheses, asterisks and blanks: the
\* scanner afterwards and the symbol
Get(s, text) ==
    IF ~s.eot /\ chIn(s, text) <= 32 THEN Get(nextChIn(s, text), text)
    ELSE IF s.eot THEN [s |-> s, sym |-> SymEot]
    ELSE IF chIn(s, text) = ChLparen
    THEN Bind(nextChIn(s, text), LAMBDA s1 :
            IF chIn(s1, text) = ChStar THEN Get(comment(s1, text), text)
            ELSE [s |-> s1, sym |-> SymLparen])
    ELSE IF chIn(s, text) = ChRparen THEN [s |-> nextChIn(s, text), sym |-> SymRparen]
    ELSE [s |-> nextChIn(s, text), sym |-> SymTimes]

RECURSIVE TextsOf(_)
\* the texts of n characters
TextsOf(n) ==
    IF n = 0 THEN {<<>>}
    ELSE {Append(t, c) : t \in TextsOf(n - 1), c \in {ChLparen, ChRparen, ChStar}}

InitComment ==
    /\ InitScanner /\ InitNum /\ InitFold
    /\ orb = NewBase
    /\ org = NewGenerator
    /\ prs = NewParser(FALSE)
    /\ peer = NewCompiler(FALSE)
    /\ fs = NoFiles
    /\ \E n \in 0 .. MaxText : \E text \in TextsOf(n) :
          drv = [mode |-> "comment", at |-> "get", text |-> text, syms |-> <<>>]

\* the parser calls Get, until it has the end of the text
CommentGet ==
    /\ drv.mode = "comment"
    /\ drv.at = "get"
    /\ \E r \in {Get(ors, drv.text)} :
          /\ ors' = r.s
          /\ drv' = [drv EXCEPT !.syms = Append(@, r.sym),
                                !.at = IF r.sym = SymEot THEN "eot" ELSE "get"]
    /\ UNCHANGED <<num, fold, orb, org, prs, peer, fs>>

NextComment == CommentGet

SpecComment == InitComment /\ [][NextComment]_vars

RECURSIVE SymbolsOutside(_, _, _)
\* the symbols of text[i ..] that stand outside comments, read at the
\* nesting depth d, and whether a comment is open at the end of the text
SymbolsOutside(text, i, d) ==
    LET at(j) == IF j > Len(text) THEN 0 ELSE text[j]
        add(sym, r) == [r EXCEPT !.syms = <<sym>> \o @]
    IN IF i > Len(text) THEN [syms |-> <<SymEot>>, open |-> d > 0]
       ELSE IF at(i) = ChLparen /\ at(i + 1) = ChStar THEN SymbolsOutside(text, i + 2, d + 1)
       ELSE IF d > 0
       THEN IF at(i) = ChStar /\ at(i + 1) = ChRparen THEN SymbolsOutside(text, i + 2, d - 1)
            ELSE SymbolsOutside(text, i + 1, d)
       ELSE add(IF at(i) = ChLparen THEN SymLparen
                ELSE IF at(i) = ChRparen THEN SymRparen ELSE SymTimes,
                SymbolsOutside(text, i + 1, d))

\* C21: comments nest: after (* the scanner skips to the *) that balances
\* it, counting the inner pairs; the symbols Get delivers are those outside
\* the comments, in their order; a comment open at the end of the text, and
\* no other text, marks "unterminated comment", and Get delivers SymEot.
C21_CommentsNest ==
    /\ \E r \in {SymbolsOutside(drv.text, 1, 0)} :
          /\ drv.syms = SubSeq(r.syms, 1, Len(drv.syms))
          /\ drv.at = "eot" =>
                /\ drv.syms = r.syms
                /\ r.open <=> ors.nMarks >= 1
                /\ r.open => ors.markMsg = "unterminated comment"

\* (*(**)*)* delivers the asterisk and the end of the text
C21_Witness ==
    /\ drv.text = <<ChLparen, ChStar, ChLparen, ChStar, ChStar, ChRparen, ChStar, ChRparen, ChStar>>
    /\ drv.syms = <<SymTimes, SymEot>>
    /\ ors.ErrCnt = 0

(***************************************************************************)
(* org: the size word of a type descriptor.                                *)
(***************************************************************************)
\* a variant of the size conversion that rounds the size itself
BuildTDSizeOfRecord(s) ==
    IF s <= 32 THEN 32
    ELSE IF s <= 64 THEN 64
    ELSE IF s <= 128 THEN 128
    ELSE ((s + 255) \div 256) * 256

\* the word BuildTD stores at g.data[dcw] for a record of size s: the size
\* converted for heap allocation
BuildTDSize(s) ==
    IF s <= 24 THEN 32
    ELSE IF s <= 56 THEN 64
    ELSE IF s <= 120 THEN 128
    ELSE ((s + 263) \div 256) * 256

\* the sizes recordType gives to records
RecSizes == {s \in 0 .. MaxRecSize : s % 4 = 0}

InitTD ==
    /\ InitScanner /\ InitNum /\ InitFold
    /\ orb = NewBase
    /\ org = NewGenerator
    /\ prs = NewParser(FALSE)
    /\ peer = NewCompiler(FALSE)
    /\ fs = NoFiles
    /\ \E s \in RecSizes :
          drv = [mode |-> "td", at |-> "type", size |-> s, typ |-> 0, dcw |-> 0, data |-> <<>>]

\* declarations builds the descriptor of a record type of the size drv.size
TDBuild ==
    /\ drv.mode = "td"
    /\ drv.at = "type"
    /\ \E r \in {AllocType(Cur, Type(FormRecord, drv.size))} :
          /\ SetCur(BuildTD(r.c, r.typ))
          /\ drv' = [drv EXCEPT !.at = "built", !.typ = r.typ, !.dcw = prs.dc \div 4,
                                !.data = <<BuildTDSize(r.c.orb.types[r.typ].Size)>>]
    /\ UNCHANGED <<num, fold, peer, fs>>

NextTD == TDBuild

SpecTD == InitTD /\ [][NextTD]_vars

\* the allocation sizes of the heap: 32, 64, 128 and the multiples of 256
HeapSizes == {32, 64, 128} \cup {256 * k : k \in 1 .. (MaxRecSize \div 256) + 2}

\* the least allocation size that holds n bytes
LeastHeapSize(n) == CHOOSE m \in HeapSizes : m >= n /\ \A k \in HeapSizes : k >= n => m <= k

\* C22 as claimed: for every record size s, word 0 of the type descriptor
\* is s rounded up to the nearest of 32, 64, 128 or else the next multiple
\* of 256.
C22_AsClaimed ==
    drv.mode = "td" /\ drv.at = "built" => drv.data[1] = LeastHeapSize(drv.size)

\* C22 amended: for every record size s, word 0 of the type descriptor is
\* s + 8 rounded up to the nearest of 32, 64, 128 or else the next multiple
\* of 256, and the type's Len is the descriptor's address.
C22_AllocationSize ==
    drv.mode = "td" /\ drv.at = "built" =>
       /\ drv.data[1] = LeastHeapSize(drv.size + 8)
       /\ orb.types[drv.typ].Len = drv.dcw * 4
       /\ ors.ErrCnt = 0

\* a record of 28 bytes is allocated in 64, one of 8 bytes in 32
C22_Witness ==
    /\ drv.mode = "td" /\ drv.at = "built"
    /\ drv.size = 28
    /\ drv.data = <<64>>
    /\ BuildTDSize(8) = 32

(***************************************************************************)
(* Export numbers.  A module of one record type or none, a list of         *)
(* exported variables or none, then variables and procedures one by one,   *)
(* exported or not; Close writes the entries of the exported objects.      *)
(***************************************************************************)
\* the name of the i-th variable of the list
ExVarName(i) == <<118, 48 + (i \div 100), 48 + ((i \div 10) % 10), 48 + (i % 10)>>

\* the name of the i-th object declared after the list
ExMoreName(i) == <<119, 48 + i>>

\* the word Close writes as the entry of the object obj, <<>> if it writes none
CloseEntry(c, obj) ==
    LET T == c.orb.types[obj.Type]
    IN IF obj.ExNo # 0
       THEN IF (obj.Class = ClassConst /\ T.Form = FormProc) \/ obj.Class = ClassVar
            THEN <<obj.Val>>
            ELSE IF obj.Class = ClassTyp /\ T.Form = FormRecord
            THEN <<T.Len % 65536>>
            ELSE <<>>
       ELSE <<>>

\* the loop of Close over the objects of the module's scope that writes the
\* entries: the index of each object that has one, and the word written
CloseEntries(c) ==
    LET objs == TopScope(c.orb)
        written(k) == CloseEntry(c, objs[k]) # <<>>
    IN Bind(SelectSeq([k \in 1 .. Len(objs) |-> k], written), LAMBDA ks :
          [j \in 1 .. Len(ks) |-> [obj |-> ks[j], w |-> CloseEntry(c, objs[ks[j]])[1]]])

InitExNo ==
    /\ InitNum /\ InitFold
    /\ peer = NewCompiler(FALSE)
    /\ fs = NoFiles
    /\ \E c \in {moduleHead(NewCompiler(FALSE), 1, IdM)} :
          ors = c.ors /\ orb = c.orb /\ org = c.org /\ prs = c.prs
    /\ \E n \in {0, ManyVars} :
          drv = [mode |-> "exno", at |-> "type", list |-> n, n |-> 0, entries |-> <<>>]

\* declarations reads  TYPE R* = RECORD END;  or no TYPE section
ExNoType ==
    /\ drv.mode = "exno"
    /\ drv.at = "type"
    /\ \/ SetCur(TypeDecl(Cur, DType(Pub(IdR), TRecord(<<>>, <<>>)).d))
       \/ UNCHANGED <<ors, orb, org, prs>>
    /\ drv' = [drv EXCEPT !.at = "var"]
    /\ UNCHANGED <<num, fold, peer, fs>>

\* declarations reads  v: INTEGER;  of the list of exported variables
ExNoListed ==
    /\ drv.mode = "exno"
    /\ drv.at = "var"
    /\ drv.list > 0
    /\ SetCur(VarDecl(Cur, DVar(<<Pub(ExVarName(drv.list))>>, TId(IdINTEGER)).d))
    /\ drv' = [drv EXCEPT !.list = @ - 1]
    /\ UNCHANGED <<num, fold, peer, fs>>

\* declarations reads  w: INTEGER;  or  w*: INTEGER;
ExNoVar ==
    /\ drv.mode = "exno"
    /\ drv.at = "var"
    /\ drv.list = 0
    /\ drv.n < MaxMore
    /\ \E expo \in BOOLEAN :
          SetCur(VarDecl(Cur, DVar(<<[id |-> ExMoreName(drv.n), expo |-> expo]>>, TId(IdINTEGER)).d))
    /\ drv' = [drv EXCEPT !.n = @ + 1]
    /\ UNCHANGED <<num, fold, peer, fs>>

\* declarations reads  PROCEDURE w; END w;  or  PROCEDURE w*; END w;
ExNoProc ==
    /\ drv.mode = "exno"
    /\ drv.at \in {"var", "proc"}
    /\ drv.list = 0
    /\ drv.n < MaxMore
    /\ \E expo \in BOOLEAN :
          SetCur(ProcDecl(Cur, DProc([id |-> ExMoreName(drv.n), expo |-> expo], <<>>, <<>>).d))
    /\ drv' = [drv EXCEPT !.n = @ + 1, !.at = "proc"]
    /\ UNCHANGED <<num, fold, peer, fs>>

\* module() has found no error and calls Close
ExNoClose ==
    /\ drv.mode = "exno"
    /\ drv.at \in {"var", "proc"}
    /\ drv.list = 0
    /\ ors.ErrCnt = 0
    /\ \E cl \in {Close([Cur EXCEPT !.org = Header(@)], fs, prs.modId, 0, prs.exNo, "ok")} :
          /\ SetCur(cl.c)
          /\ fs' = cl.fs
          /\ drv' = [drv EXCEPT !.at = "closed", !.entries = CloseEntries(cl.c)]
    /\ UNCHANGED <<num, fold, peer>>

NextExNo ==
    \/ ExNoType
    \/ ExNoListed
    \/ ExNoVar
    \/ ExNoProc
    \/ ExNoClose

SpecExNo == InitExNo /\ [][NextExNo]_vars

\* the exported variables, procedures and record types of the module
ExportedObjs ==
    {k \in 1 .. Len(TopScope(orb)) :
        LET obj == TopScope(orb)[k]
        IN /\ obj.Expo
           /\ obj.Lev = 0
           /\ \/ obj.Class = ClassVar
              \/ obj.Class = ClassConst /\ orb.types[obj.Type].Form = FormProc
              \/ obj.Class = ClassTyp /\ orb.types[obj.Type].Form = FormRecord}

\* C23: every exported variable, procedure and record type of the module
\* has an ExNo that is not zero and is the ExNo of no other exported object,
\* however many there are; Close writes one entry for each of them, the
\* entry of the object with the ExNo j being the j-th.
C23_AsClaimed ==
    drv.mode = "exno" =>
       /\ \A k \in ExportedObjs :
             /\ TopScope(orb)[k].ExNo # 0
             /\ \A j \in ExportedObjs : j # k => TopScope(orb)[j].ExNo # TopScope(orb)[k].ExNo
       /\ drv.at = "closed" =>
             /\ {drv.entries[j].obj : j \in 1 .. Len(drv.entries)} = ExportedObjs
             /\ \A j \in 1 .. Len(drv.entries) : TopScope(orb)[drv.entries[j].obj].ExNo = j

(***************************************************************************)
(* The order of the parts of a declaration sequence.                       *)
(***************************************************************************)
\* whether a declaration of the kind kind has been read
DeclaredKind(kind) == \E i \in drv.taken : DeclMenu[i].kind = kind

\* C24: every violation of the order CONST, TYPE, VAR marks "declaration in
\* bad order": when declarations returns at CONST after the declarations of
\* a TYPE or VAR section, or at TYPE after those of a VAR section, this
\* message is the one marked last.
C24_AsClaimed ==
    /\ drv.mode = "decl"
    /\ prs.pc = "declared"
    /\ \/ prs.sym = SymConst /\ (DeclaredKind("type") \/ DeclaredKind("var"))
       \/ prs.sym = SymType /\ DeclaredKind("var")
    => /\ ors.ErrCnt >= 1
       /\ ors.markMsg = "declaration in bad order"

(***************************************************************************)
(* Procedure types: equalSignatures.  A procedure's type keeps in Dsc the  *)
(* objects of the procedure's scope, its parameters first.                 *)
(***************************************************************************)
RECURSIVE localVars(_, _, _)
\* the VAR part of the declarations of a procedure over locals[k..]
localVars(c, locals, k) ==
    IF k > Len(locals) THEN c ELSE localVars(VarDecl(c, locals[k]), locals, k + 1)

\* p.procedureDecl() for  PROCEDURE id (pars) : res; VAR locals; END id
\* without local procedures, statements and RETURN clause; the size of the
\* variables is counted from parBlkSize
procedureDecl(c, d) ==
    Bind(NewObj(c, d.id, ClassConst), LAMBDA n :
    LET h == n.obj
    IN
    Bind(AllocType(n.c, [Type(FormProc, WordSize) EXCEPT !.Base = NoType]), LAMBDA a :
    Bind(checkExport(a.c, d.expo), LAMBDA c0 :
    LET c1 == [c0 EXCEPT !.orb.scopes[h.d][h.i] =
                            [@ EXCEPT !.Type = a.typ, !.Val = -1, !.Lev = c0.prs.level,
                                      !.Expo = d.expo,
                                      !.ExNo = IF d.expo THEN c0.prs.exNo % 256 ELSE @],
                         !.prs.exNo = IF d.expo THEN @ + 1 ELSE @,
                         !.orb = OpenScope(@),
                         !.prs.level = @ + 1]
    IN
    Bind(procedureType(c1, a.typ, 4, d.pars, d.res), LAMBDA r :
    Bind(localVars([r.c EXCEPT !.prs.pbsList = <<>>, !.prs.dc = r.parBlkSize], d.locals, 1), LAMBDA l :
    Bind([l EXCEPT !.prs.dc = c.prs.dc,
                   !.orb.scopes[h.d][h.i].Val = l.org.PC * 4,
                   !.orb.types[a.typ].Dsc = TopScope(l.orb)], LAMBDA c2 :
    Bind(Enter(c2, r.parBlkSize, Align4(l.prs.dc)), LAMBDA c3 :
    LET c4 == IF c3.orb.types[c3.orb.types[a.typ].Base].Form # FormNoTyp
              THEN [MarkC(c3, "function without result") EXCEPT !.orb.types[a.typ].Base = NoType]
              ELSE c3
    IN [c4 EXCEPT !.org.PC = @ + 3, !.orb = CloseScope(@), !.prs.level = @ - 1])))))))

RECURSIVE equalSignatures(_, _, _)
RECURSIVE equalParams(_, _, _, _)

\* the loop of equalSignatures at the k-th objects of the lists d0 and d1;
\* when d1 has ended p1 is nil, and p1.Class panics
equalParams(b, d0, d1, k) ==
    IF k > Len(d0) THEN [com |-> TRUE, panic |-> FALSE]
    ELSE IF k > Len(d1) THEN [com |-> FALSE, panic |-> TRUE]
    ELSE LET p0 == d0[k]
             p1 == d1[k]
             T0 == b.types[p0.Type]
             T1 == b.types[p1.Type]
         IN IF p0.Class = p1.Class /\ p0.Rdo = p1.Rdo
            THEN IF p0.Type = p1.Type
                    \/ (T0.Form = FormArray /\ T1.Form = FormArray
                           /\ T0.Len = T1.Len /\ T0.Base = T1.Base)
                 THEN equalParams(b, d0, d1, k + 1)
                 ELSE IF T0.Form = FormProc /\ T1.Form = FormProc
                 THEN Bind(equalSignatures(b, p0.Type, p1.Type), LAMBDA r :
                         IF r.panic \/ ~r.com THEN r ELSE equalParams(b, d0, d1, k + 1))
                 ELSE [com |-> FALSE, panic |-> FALSE]
            ELSE [com |-> FALSE, panic |-> FALSE]

\* equalSignatures(t0, t1): the result, or a panic
equalSignatures(b, t0, t1) ==
    IF b.types[t0].Base = b.types[t1].Base /\ b.types[t0].NOfPar = b.types[t1].NOfPar
    THEN equalParams(b, b.types[t0].Dsc, b.types[t1].Dsc, 1)
    ELSE [com |-> FALSE, panic |-> FALSE]

\* PROCEDURE id (pars); VAR locals; END id
SigProc(id, pars, locals) ==
    [kind |-> "proc", d |-> [id |-> id, expo |-> FALSE, pars |-> pars, res |-> <<>>, locals |-> locals]]

\* (x: INTEGER)
SigInt == <<Section(FALSE, <<Priv(Idx)>>, TId(IdINTEGER))>>

\* the procedure types and the procedures of the texts
SigMenu ==
    << DType(Priv(IdF), TProc(SigInt, <<>>)),
       DType(Priv(IdE), TProc(SigInt, <<>>)),
       SigProc(Idf, SigInt, <<>>),
       SigProc(Idg, SigInt, <<DVar(<<Priv(Idk)>>, TId(IdINTEGER)).d>>),
       SigProc(Idh, SigInt, <<DVar(<<Priv(Idb)>>, TId(IdBOOLEAN)).d>>),
       DType(Priv(IdA), TProc(<<Section(TRUE, <<Priv(Idx)>>, TId(IdINTEGER))>>, <<>>)),
       DType(Priv(IdP), TProc(<<Section(FALSE, <<Priv(Idx)>>, TId(IdBOOLEAN))>>, <<>>)),
       DType(Priv(IdQ), TProc(SigInt, IdINTEGER)),
       DType(Priv(IdR), TProc(<<Section(FALSE, <<Priv(Ida)>>, TOpen(TId(IdINTEGER)))>>, <<>>)),
       SigProc(Idi, <<Section(FALSE, <<Priv(Ida)>>, TOpen(TId(IdINTEGER)))>>, <<>>),
       DType(Priv(IdN), TProc(<<Section(FALSE, <<Priv(Idy)>>, TProc(SigInt, <<>>))>>, <<>>)),
       SigProc(Idu, <<Section(FALSE, <<Priv(Idy)>>, TProc(SigInt, <<>>))>>,
               <<DVar(<<Priv(Idk)>>, TId(IdINTEGER)).d>>) >>

InitSig ==
    /\ InitNum /\ InitFold
    /\ peer = NewCompiler(FALSE)
    /\ fs = NoFiles
    /\ \E c \in {moduleHead(NewCompiler(FALSE), 1, IdM)} :
          ors = c.ors /\ orb = c.orb /\ org = c.org /\ prs = c.prs
    /\ drv = [mode |-> "sig", at |-> "decl", last |-> 0, types |-> <<>>, pair |-> <<>>,
              res |-> [com |-> FALSE, panic |-> FALSE]]

\* declarations reads a procedure type, or module() a procedure
SigDeclare ==
    /\ drv.mode = "sig"
    /\ drv.at = "decl"
    /\ Len(drv.types) < MaxSigs
    /\ \E i \in drv.last + 1 .. Len(SigMenu) :
       \E c \in {IF SigMenu[i].kind = "type" THEN TypeDecl(Cur, SigMenu[i].d)
                 ELSE procedureDecl(Cur, SigMenu[i].d)} :
          /\ SetCur(c)
          /\ drv' = [drv EXCEPT !.last = i,
                                !.types = Append(@, TopScope(c.orb)[Len(TopScope(c.orb))].Type)]
    /\ UNCHANGED <<num, fold, peer, fs>>

\* expression compares two operands of procedure types
SigCompare ==
    /\ drv.mode = "sig"
    /\ drv.at = "decl"
    /\ \E i \in 1 .. Len(drv.types), j \in 1 .. Len(drv.types) :
          drv' = [drv EXCEPT !.at = "compared", !.pair = <<drv.types[i], drv.types[j]>>,
                             !.res = equalSignatures(orb, drv.types[i], drv.types[j])]
    /\ UNCHANGED <<ors, orb, org, prs, num, fold, peer, fs>>

NextSig ==
    \/ SigDeclare
    \/ SigCompare

SpecSig == InitSig /\ [][NextSig]_vars

RECURSIVE SameSignature(_, _, _)
\* whether two procedure types have the identical result type, the same
\* number of parameters, and at each parameter position equal class, equal
\* read-only flag and equal type
SameSignature(b, t0, t1) ==
    LET T0 == b.types[t0]
        T1 == b.types[t1]
        same(k) ==
           LET p0 == T0.Dsc[k]
               p1 == T1.Dsc[k]
               A0 == b.types[p0.Type]
               A1 == b.types[p1.Type]
           IN /\ p0.Class = p1.Class
              /\ p0.Rdo = p1.Rdo
              /\ \/ p0.Type = p1.Type
                 \/ A0.Form = FormArray /\ A1.Form = FormArray /\ A0.Len = A1.Len /\ A0.Base = A1.Base
                 \/ A0.Form = FormProc /\ A1.Form = FormProc /\ SameSignature(b, p0.Type, p1.Type)
    IN /\ T0.Base = T1.Base
       /\ T0.NOfPar = T1.NOfPar
       /\ \A k \in 1 .. T0.NOfPar : same(k)

\* C25: equalSignatures(t0, t1) returns, and it returns true exactly when
\* the two types have the identical result type, the same number of
\* parameters and equal parameters at each position, whatever follows the
\* parameters in Dsc; it returns the same for (t1, t0).
C25_AsClaimed ==
    drv.mode = "sig" /\ drv.at = "compared" =>
       /\ ~drv.res.panic
       /\ drv.res.com <=> SameSignature(orb, drv.pair[1], drv.pair[2])
       /\ drv.res = equalSignatures(orb, drv.pair[2], drv.pair[1])

(***************************************************************************)
(* org: chains of pending branches.  Here the generator keeps its code: a  *)
(* word is [hi, lo], its top 8 bits and its low 24 bits; code[i + 1] is    *)
(* g.code[i].  g.fixes lists the calls of FixLink that the operation under *)
(* way has made, g.spin tells that a loop did not end.                     *)
(***************************************************************************)
opMov == 0
opSub == 9
opLdr == 8
opStr == 10
opBC == 2
opNE == 9
sp == 14
lnk == 15
classCond == 12

\* g.code[i]
CodeAt(g, i) == g.code[i + 1]

\* Generator.put1(op, a, b, im) for 0 <= im < 0x10000
put1(g, op, a, b, im) ==
    [g EXCEPT !.code = Append(@, [hi |-> 64 + a, lo |-> (b * 16 + op) * 65536 + im]),
              !.PC = @ + 1]

\* Generator.put2(op, a, b, off) for 0 <= off < 0x100000
put2(g, op, a, b, off) ==
    [g EXCEPT !.code = Append(@, [hi |-> op * 16 + a, lo |-> b * 1048576 + off]),
              !.PC = @ + 1]

\* Generator.put3(op, cond, off) for 0 <= off
put3(g, op, cond, off) ==
    [g EXCEPT !.code = Append(@, [hi |-> (op + 12) * 16 + cond, lo |-> off % 16777216]),
              !.PC = @ + 1]

\* Generator.negated(cond)
negated(cond) == IF cond < 8 THEN cond + 8 ELSE cond - 8

\* a variant of fix that stores the offset as the whole word
fixWholeWord(g, at, with) ==
    [g EXCEPT !.code[at + 1] = [hi |-> 0, lo |-> with % 16777216]]

\* Generator.fix(at, with)
fix(g, at, with) ==
    [g EXCEPT !.code[at + 1] = [hi |-> @.hi, lo |-> with % 16777216]]

RECURSIVE FixLinkFrom(_, _, _)
\* the loop of FixLink at L, which has n more rounds before it is given up
FixLinkFrom(g, L, n) ==
    IF L = 0 THEN g
    ELSE IF n = 0 THEN [g EXCEPT !.spin = TRUE]
    ELSE FixLinkFrom(fix(g, L, g.PC - L - 1), CodeAt(g, L).lo % 262144, n - 1)

\* Generator.FixLink(L)
FixLink(g, L) ==
    Bind(FixLinkFrom(g, L, g.PC), LAMBDA g1 :
       [g1 EXCEPT !.fixes = Append(@, [L |-> L, PC |-> g.PC, before |-> g.code, after |-> g1.code])])

RECURSIVE mergedLast(_, _, _)
\* the loop of merged: the last instruction of the chain at L2, none if
\* the loop does not end
mergedLast(g, L2, n) ==
    IF CodeAt(g, L2).lo % 262144 = 0 THEN L2
    ELSE IF n = 0 THEN -1
    ELSE mergedLast(g, CodeAt(g, L2).lo % 262144, n - 1)

\* Generator.merged(L0, L1): the generator and the chain
merged(g, L0, L1) ==
    IF L0 # 0
    THEN Bind(mergedLast(g, L0, g.PC), LAMBDA L2 :
            IF L2 < 0 THEN [g |-> [g EXCEPT !.spin = TRUE], L |-> L0]
            ELSE [g |-> [g EXCEPT !.code[L2 + 1] =
                            [hi |-> (@.hi + (@.lo + L1) \div 16777216) % 256,
                             lo |-> (@.lo + L1) % 16777216]],
                  L |-> L0])
    ELSE [g |-> g, L |-> L1]

\* Generator.loadCond(x) for a Boolean constant or a local Boolean variable
loadCond(g, x) ==
    IF x.Mode = ClassConst
    THEN [g |-> g, x |-> [x EXCEPT !.Mode = classCond, !.r = 15 - x.A * 8, !.A = 0, !.B = 0]]
    ELSE Bind(put2(g, opLdr + 1, g.rh, sp, x.A + g.frame), LAMBDA g1 :
         Bind(IF CodeAt(g1, g1.PC - 1).hi \div 64 # 2 THEN put1(g1, opSub, g1.rh, g1.rh, 0) ELSE g1,
              LAMBDA g2 :
            [g |-> g2, x |-> [x EXCEPT !.Mode = classCond, !.r = opNE, !.A = 0, !.B = 0]]))

\* if x.Mode != classCond { g.loadCond(x) }
asCond(g, x) == IF x.Mode # classCond THEN loadCond(g, x) ELSE [g |-> g, x |-> x]

\* Generator.Not(x)
Not(g, x) ==
    Bind(asCond(g, x), LAMBDA l :
       [g |-> l.g, x |-> [l.x EXCEPT !.r = negated(l.x.r), !.A = l.x.B, !.B = l.x.A]])

\* Generator.And1(x)
And1(g, x) ==
    Bind(asCond(g, x), LAMBDA l :
    Bind(put3(l.g, opBC, negated(l.x.r), l.x.A), LAMBDA g1 :
       [g |-> FixLink(g1, l.x.B), x |-> [l.x EXCEPT !.A = g1.PC - 1, !.B = 0]]))

\* Generator.And2(x, y)
And2(g, x, y) ==
    Bind(asCond(g, y), LAMBDA l :
    Bind(merged(l.g, l.x.A, x.A), LAMBDA m :
       [g |-> m.g, x |-> [x EXCEPT !.A = m.L, !.B = l.x.B, !.r = l.x.r]]))

\* Generator.Or1(x)
Or1(g, x) ==
    Bind(asCond(g, x), LAMBDA l :
    Bind(put3(l.g, opBC, l.x.r, l.x.B), LAMBDA g1 :
       [g |-> FixLink(g1, l.x.A), x |-> [l.x EXCEPT !.B = g1.PC - 1, !.A = 0]]))

\* Generator.Or2(x, y)
Or2(g, x, y) ==
    Bind(asCond(g, y), LAMBDA l :
    Bind(merged(l.g, l.x.B, x.B), LAMBDA m :
       [g |-> m.g, x |-> [x EXCEPT !.A = l.x.A, !.B = m.L, !.r = l.x.r]]))

\* Generator.FJump(&L): the generator and L
FJump(g, L) == Bind(put3(g, opBC, 7, L), LAMBDA g1 : [g |-> g1, L |-> g1.PC - 1])

\* Generator.CFJump(x)
CFJump(g, x) ==
    Bind(asCond(g, x), LAMBDA l :
    Bind(put3(l.g, opBC, negated(l.x.r), l.x.A), LAMBDA g1 :
       [g |-> FixLink(g1, l.x.B), x |-> [l.x EXCEPT !.A = g1.PC - 1]]))

\* Generator.Fixup(x)
Fixup(g, x) == FixLink(g, x.A)

\* Generator.Store(x, y) of a Boolean expression y into the local variable
\* x: load(y) of a condition, or of a constant or a variable
StoreBool(g, x, y) ==
    Bind(IF y.Mode = classCond
         THEN Bind(FixLink(put3(g, opBC, negated(y.r), 2), y.B), LAMBDA g1 :
              Bind(put3(put1(g1, opMov, g1.rh, 0, 1), opBC, 7, 1), LAMBDA g2 :
                 put1(FixLink(g2, y.A), opMov, g2.rh, 0, 0)))
         ELSE IF y.Mode = ClassConst THEN put1(g, opMov, g.rh, 0, y.A)
         ELSE put2(g, opLdr + 1, g.rh, sp, y.A + g.frame), LAMBDA g3 :
       put2(g3, opStr + 1, g3.rh, sp, x.A + g3.frame))

\* the code of the statement  v := FALSE  with the local variable v
StatCode(g) == put2(put1(g, opMov, g.rh, 0, 0), opStr + 1, g.rh, sp, 4)

\* the Items of the operands: the constants FALSE and TRUE, and the local
\* variable at the address 5; wait tells that the operand stands before an
\* operator whose second operand is being read
LinkOperands ==
    {[Mode |-> ClassConst, A |-> 0, B |-> 0, r |-> 0, wait |-> ""],
     [Mode |-> ClassVar, A |-> 5, B |-> 0, r |-> 1, wait |-> ""]}

\* the generator after Enter(4, 8, false)
InitLink ==
    /\ InitScanner /\ InitNum /\ InitFold
    /\ orb = NewBase
    /\ prs = NewParser(FALSE)
    /\ peer = NewCompiler(FALSE)
    /\ fs = NoFiles
    /\ org = put2(put1([code |-> <<>>, PC |-> 0, rh |-> 0, frame |-> 0, fixes |-> <<>>,
                        spin |-> FALSE], opSub, sp, sp, 8), opStr, lnk, sp, 0)
    /\ drv = [mode |-> "link", at |-> "cond", items |-> <<>>, L0 |-> 0, n |-> 0]

\* the operation that begins: no call of FixLink yet
LinkBegin == [org EXCEPT !.fixes = <<>>]

\* the item on top, and the item below it
LinkTop == drv.items[Len(drv.items)]
LinkBelow == drv.items[Len(drv.items) - 1]

\* one more operation of the text
LinkStep(at, items, L0) ==
    drv' = [drv EXCEPT !.at = at, !.items = items, !.L0 = L0, !.n = @ + 1]

\* the items with r in place of the one on top
LinkPut(x) == [drv.items EXCEPT ![Len(drv.items)] = x]

\* factor reads an operand
LinkFactor ==
    /\ drv.mode = "link" /\ drv.at = "cond" /\ drv.n < MaxLinkOps
    /\ Len(drv.items) < MaxOperands
    /\ IF drv.items = <<>> THEN TRUE ELSE LinkTop.wait # ""
    /\ \E x \in LinkOperands : LinkStep("cond", Append(drv.items, x), drv.L0)
    /\ org' = LinkBegin
    /\ UNCHANGED <<ors, orb, prs, peer, fs, num, fold>>

\* factor has read  ~ factor
LinkNot ==
    /\ drv.mode = "link" /\ drv.at = "cond" /\ drv.n < MaxLinkOps
    /\ drv.items # <<>> /\ LinkTop.wait = ""
    /\ \E r \in {Not(LinkBegin, LinkTop)} :
          org' = r.g /\ LinkStep("cond", LinkPut(r.x), drv.L0)
    /\ UNCHANGED <<ors, orb, prs, peer, fs, num, fold>>

\* term has read  factor &
LinkAnd1 ==
    /\ drv.mode = "link" /\ drv.at = "cond" /\ drv.n < MaxLinkOps
    /\ drv.items # <<>> /\ LinkTop.wait = ""
    /\ Len(drv.items) < MaxOperands
    /\ \E r \in {And1(LinkBegin, LinkTop)} :
          org' = r.g /\ LinkStep("cond", LinkPut([r.x EXCEPT !.wait = "and"]), drv.L0)
    /\ UNCHANGED <<ors, orb, prs, peer, fs, num, fold>>

\* term has read the factor after &
LinkAnd2 ==
    /\ drv.mode = "link" /\ drv.at = "cond" /\ drv.n < MaxLinkOps
    /\ Len(drv.items) >= 2 /\ LinkTop.wait = "" /\ LinkBelow.wait = "and"
    /\ \E r \in {And2(LinkBegin, LinkBelow, LinkTop)} :
          /\ org' = r.g
          /\ LinkStep("cond", Append(SubSeq(drv.items, 1, Len(drv.items) - 2),
                                     [r.x EXCEPT !.wait = ""]), drv.L0)
    /\ UNCHANGED <<ors, orb, prs, peer, fs, num, fold>>

\* simpleExpression has read  term OR
LinkOr1 ==
    /\ drv.mode = "link" /\ drv.at = "cond" /\ drv.n < MaxLinkOps
    /\ drv.items # <<>> /\ LinkTop.wait = ""
    /\ Len(drv.items) < MaxOperands
    /\ \E r \in {Or1(LinkBegin, LinkTop)} :
          org' = r.g /\ LinkStep("cond", LinkPut([r.x EXCEPT !.wait = "or"]), drv.L0)
    /\ UNCHANGED <<ors, orb, prs, peer, fs, num, fold>>

\* simpleExpression has read the term after OR
LinkOr2 ==
    /\ drv.mode = "link" /\ drv.at = "cond" /\ drv.n < MaxLinkOps
    /\ Len(drv.items) >= 2 /\ LinkTop.wait = "" /\ LinkBelow.wait = "or"
    /\ \E r \in {Or2(LinkBegin, LinkBelow, LinkTop)} :
          /\ org' = r.g
          /\ LinkStep("cond", Append(SubSeq(drv.items, 1, Len(drv.items) - 2),
                                     [r.x EXCEPT !.wait = ""]), drv.L0)
    /\ UNCHANGED <<ors, orb, prs, peer, fs, num, fold>>

\* IF expression THEN, ELSIF expression THEN
LinkCFJump ==
    /\ drv.mode = "link" /\ drv.at = "cond"
    /\ Len(drv.items) = 1 /\ LinkTop.wait = ""
    /\ \E r \in {CFJump(LinkBegin, LinkTop)} :
          org' = r.g /\ LinkStep("then", <<r.x>>, drv.L0)
    /\ UNCHANGED <<ors, orb, prs, peer, fs, num, fold>>

\* v := expression  in place of the IF statement
LinkStore ==
    /\ drv.mode = "link" /\ drv.at = "cond"
    /\ Len(drv.items) = 1 /\ LinkTop.wait = ""
    /\ drv.L0 = 0
    /\ org' = StoreBool(LinkBegin, [Mode |-> ClassVar, A |-> 4, B |-> 0, r |-> 1], LinkTop)
    /\ LinkStep("end", <<>>, 0)
    /\ UNCHANGED <<ors, orb, prs, peer, fs, num, fold>>

\* the statements after THEN, and ELSIF
LinkElsif ==
    /\ drv.mode = "link" /\ drv.at = "then" /\ drv.n < MaxLinkOps
    /\ \E body \in BOOLEAN :
       \E j \in {FJump(IF body THEN StatCode(LinkBegin) ELSE LinkBegin, drv.L0)} :
          /\ org' = Fixup(j.g, LinkTop)
          /\ LinkStep("cond", <<>>, j.L)
    /\ UNCHANGED <<ors, orb, prs, peer, fs, num, fold>>

\* the statements after THEN, ELSE, the statements after ELSE, and END
LinkElse ==
    /\ drv.mode = "link" /\ drv.at = "then"
    /\ \E body \in BOOLEAN :
       \E j \in {FJump(IF body THEN StatCode(LinkBegin) ELSE LinkBegin, drv.L0)} :
          /\ org' = FixLink(StatCode(Fixup(j.g, LinkTop)), j.L)
          /\ LinkStep("end", <<>>, j.L)
    /\ UNCHANGED <<ors, orb, prs, peer, fs, num, fold>>

\* the statements after THEN, and END
LinkEnd ==
    /\ drv.mode = "link" /\ drv.at = "then"
    /\ \E body \in BOOLEAN :
          org' = FixLink(Fixup(IF body THEN StatCode(LinkBegin) ELSE LinkBegin, LinkTop), drv.L0)
    /\ LinkStep("end", <<>>, drv.L0)
    /\ UNCHANGED <<ors, orb, prs, peer, fs, num, fold>>

NextLink ==
    \/ LinkFactor
    \/ LinkNot
    \/ LinkAnd1
    \/ LinkAnd2
    \/ LinkOr1
    \/ LinkOr2
    \/ LinkCFJump
    \/ LinkStore
    \/ LinkElsif
    \/ LinkElse
    \/ LinkEnd

SpecLink == InitLink /\ [][NextLink]_vars

RECURSIVE ChainFrom(_, _, _)
\* the instructions on the chain L of the code, found in at most n steps
ChainFrom(code, L, n) ==
    IF L = 0 \/ n = 0 THEN {}
    ELSE {L} \cup ChainFrom(code, code[L + 1].lo % 262144, n - 1)

\* what a call f of FixLink has to have done
Fixed(f) ==
    /\ Len(f.after) = Len(f.before)
    /\ \E chain \in {ChainFrom(f.before, f.L, Len(f.before))} :
       \A i \in 0 .. Len(f.before) - 1 :
          IF i \in chain
          THEN /\ f.before[i + 1].hi \div 16 = opBC + 12
               /\ f.after[i + 1] = [hi |-> f.before[i + 1].hi, lo |-> f.PC - i - 1]
          ELSE f.after[i + 1] = f.before[i + 1]

\* C26: every call FixLink(L) on a chain that FJump, CFJump, And1, Or1 and
\* merged have built ends; it sets the offset of every instruction on the
\* chain, all of them branches, to PC - location - 1, keeps their top 8
\* bits, and changes no other word of the code.
C26_FixLink ==
    drv.mode = "link" =>
       /\ ~org.spin
       /\ \A k \in 1 .. Len(org.fixes) : Fixed(org.fixes[k])

\* IF FALSE & (FALSE & FALSE) THEN ELSE: the chain of the three branches,
\* the second joined to the first by merged, is fixed after the branch of
\* ELSE
C26_Witness ==
    /\ drv.mode = "link"
    /\ \E k \in 1 .. Len(org.fixes) :
          /\ org.fixes[k].L = 4
          /\ org.fixes[k].PC = 6
          /\ ChainFrom(org.fixes[k].before, 4, 6) = {2, 3, 4}
          /\ org.fixes[k].before[4] = [hi |-> 231, lo |-> 2]
          /\ org.fixes[k].after[4] = [hi |-> 231, lo |-> 2]
          /\ org.fixes[k].after[3] = [hi |-> 231, lo |-> 3]
          /\ org.fixes[k].after[5] = [hi |-> 231, lo |-> 1]

(***************************************************************************)
(* org: the end of the code array.  The module has NearEnd words less than *)
(* maxCode of code when the text goes on with more statements.             *)
(***************************************************************************)
\* put0, put1, put2 and put3, whatever the word: g.code[g.PC] = word; g.PC++
\* panics when g.PC is no index of g.code
putWord(g) ==
    IF g.PC >= maxCode THEN [g |-> g, panic |-> TRUE]
    ELSE [g |-> [g EXCEPT !.PC = @ + 1], panic |-> FALSE]

InitCode ==
    /\ InitScanner /\ InitNum /\ InitFold
    /\ orb = NewBase
    /\ prs = NewParser(FALSE)
    /\ peer = NewCompiler(FALSE)
    /\ fs = NoFiles
    /\ org = [Open(NewGenerator, 1) EXCEPT !.PC = maxCode - NearEnd]
    /\ drv = [mode |-> "code", emitted |-> FALSE, panic |-> FALSE]

\* a statement emits one more instruction
CodePut ==
    /\ drv.mode = "code"
    /\ ~drv.panic
    /\ \E r \in {putWord(org)} :
          /\ org' = r.g
          /\ drv' = [drv EXCEPT !.emitted = TRUE, !.panic = r.panic]
    /\ UNCHANGED <<ors, orb, prs, peer, fs, num, fold>>

\* statSequence calls CheckRegs after a statement that has emitted code
CodeCheckRegs ==
    /\ drv.mode = "code"
    /\ ~drv.panic
    /\ drv.emitted
    /\ SetCur(CheckRegs(Cur))
    /\ drv' = [drv EXCEPT !.emitted = FALSE]
    /\ UNCHANGED <<peer, fs, num, fold>>

NextCode ==
    \/ CodePut
    \/ CodeCheckRegs

SpecCode == InitCode /\ [][NextCode]_vars

\* C27: the code array is never written past its capacity: after any
\* sequence of emitted instructions PC is below maxCode, and no write to
\* g.code is out of range; a program that is too long is reported by
\* "program too long" alone.
C27_AsClaimed ==
    drv.mode = "code" => org.PC < maxCode /\ ~drv.panic

(***************************************************************************)
(* org: the string pool.  drv.used lists the string literals whose pool    *)
(* address was handed to emitted code: the address and the bytes.          *)
(***************************************************************************)
\* the string literals of the texts, of more than one character
PoolLiterals == {<<120, 121>>, <<112, 113, 114, 115, 116>>}

\* the bytes of c's pool from adr on that hold the string Str
PoolHolds(c, adr, Str) ==
    /\ adr + Len(Str) <= c.org.strx
    /\ adr + Len(Str) <= Len(c.org.str)
    /\ SubSeq(c.org.str, adr + 1, adr + Len(Str)) = Str

InitPool ==
    /\ InitScanner /\ InitNum /\ InitFold
    /\ orb = NewBase
    /\ prs = NewParser(FALSE)
    /\ peer = NewCompiler(FALSE)
    /\ fs = NoFiles
    /\ org = Open(NewGenerator, 1)
    /\ drv = [mode |-> "pool", n |-> 0, used |-> <<>>]

\* factor reads a string literal that is used as a string: its address is
\* loaded as a parameter or for an assignment to an array
PoolString ==
    /\ drv.mode = "pool"
    /\ drv.n < MaxPoolOps
    /\ \E s \in PoolLiterals :
       \E r \in {MakeStringItem(Cur, s \o <<0>>)} :
          /\ SetCur(r.c)
          /\ drv' = [drv EXCEPT !.n = @ + 1,
                                !.used = Append(@, [adr |-> r.x.A, Str |-> s \o <<0>>])]
    /\ UNCHANGED <<peer, fs, num, fold>>

\* ch := "a": the literal of one character is made a string item and then
\* a character
PoolChar ==
    /\ drv.mode = "pool"
    /\ drv.n < MaxPoolOps
    /\ \E r \in {MakeStringItem(Cur, <<97, 0>>)} :
          SetCur(StrToChar(r.c, r.x).c)
    /\ drv' = [drv EXCEPT !.n = @ + 1]
    /\ UNCHANGED <<peer, fs, num, fold>>

\* expression reads  "a" = y  with y of type CHAR: a variable, or the call
\* f(s) of a function with the string literal s as its parameter; the
\* literal of one character is converted after y is read
PoolRelation ==
    /\ drv.mode = "pool"
    /\ drv.n < MaxPoolOps
    /\ \E r \in {MakeStringItem(Cur, <<97, 0>>)} :
          \/ /\ SetCur(StrToChar(r.c, r.x).c)
             /\ drv' = [drv EXCEPT !.n = @ + 1]
          \/ \E s \in PoolLiterals :
             \E y \in {MakeStringItem(r.c, s \o <<0>>)} :
                /\ SetCur(StrToChar(y.c, r.x).c)
                /\ drv' = [drv EXCEPT !.n = @ + 1,
                                      !.used = Append(@, [adr |-> y.x.A, Str |-> s \o <<0>>])]
    /\ UNCHANGED <<peer, fs, num, fold>>

NextPool ==
    \/ PoolString
    \/ PoolChar
    \/ PoolRelation

SpecPool == InitPool /\ [][NextPool]_vars

\* C28: after any sequence of MakeStringItem and StrToChar, the bytes of
\* every string literal that is used as a string lie below strx and hold
\* the string: StrToChar releases the bytes of the string it converts only.
C28_AsClaimed ==
    drv.mode = "pool" =>
       \A k \in 1 .. Len(drv.used) : PoolHolds(Cur, drv.used[k].adr, drv.used[k].Str)

(***************************************************************************)
(* org: procedure calls, with the effect of the emitted instructions.      *)
(* Here the generator g carries what the code emitted so far leaves at run *)
(* time: g.R[i] is the value in register i and g.stk the words on the      *)
(* stack from SP upwards, as far as the code of the expression has pushed  *)
(* them.  Values are tokens: a variable's value, a procedure's address,    *)
(* the result of a call, or what a called procedure leaves in a register.  *)
(***************************************************************************)
classRegI == 11

Undef == [t |-> "undef", d |-> 0, i |-> 0]
Junk == [t |-> "junk", d |-> 0, i |-> 0]
ValToken(d, i) == [t |-> "val", d |-> d, i |-> i]
ProcToken(d) == [t |-> "proc", d |-> d, i |-> 0]
ResToken(d) == [t |-> "res", d |-> d, i |-> 0]

\* the generator at the begin of a statement
CallGenerator ==
    [rh |-> 0, frame |-> 0, R |-> [i \in 0 .. 15 |-> Undef], stk |-> <<>>, errs |-> 0]

\* Generator.incR()
incRegister(g) == IF g.rh < mt - 1 THEN [g EXCEPT !.rh = @ + 1] ELSE [g EXCEPT !.errs = @ + 1]

\* put1(opSub, sp, sp, n * 4) and put1(opAdd, sp, sp, n * 4)
SubSP(g, n) == [g EXCEPT !.stk = [k \in 1 .. n |-> Undef] \o @]
AddSP(g, n) == [g EXCEPT !.stk = SubSeq(@, n + 1, Len(@))]

\* put2(opStr, a, sp, off) and put2(opLdr, a, sp, off)
StrSP(g, a, off) == [g EXCEPT !.stk[off \div 4 + 1] = g.R[a]]
LdrSP(g, a, off) == [g EXCEPT !.R[a] = g.stk[off \div 4 + 1]]

\* the value v is loaded into the register g.rh, which is then in use
loadValue(g, v) == incRegister([g EXCEPT !.R[g.rh] = v])

RECURSIVE saveRegsLoop(_, _, _)
saveRegsLoop(g, r, r0) ==
    Bind(StrSP(g, r0, (r - r0 - 1) * 4), LAMBDA g1 :
       IF r0 + 1 = r THEN g1 ELSE saveRegsLoop(g1, r, r0 + 1))

\* Generator.saveRegs(r) with the instructions' effect, r > 0
saveRegsCode(g, r) == saveRegsLoop([SubSP(g, r) EXCEPT !.frame = @ + 4 * r], r, 0)

RECURSIVE restoreRegsLoop(_, _, _)
restoreRegsLoop(g, r, r0) ==
    Bind(LdrSP(g, r0 - 1, (r - (r0 - 1) - 1) * 4), LAMBDA g1 :
       IF r0 - 1 = 0 THEN g1 ELSE restoreRegsLoop(g1, r, r0 - 1))

\* a variant of restoreRegs that reads the slots in the order of the registers
restoreRegsUpwards(g, r) ==
    [AddSP([g EXCEPT !.R = [i \in 0 .. 15 |-> IF i < r THEN g.stk[i + 1] ELSE @[i]]], r)
        EXCEPT !.frame = @ - 4 * r]

\* Generator.restoreRegs(r) with the instructions' effect, r > 0
restoreRegsCode(g, r) == [AddSP(restoreRegsLoop(g, r, r), r) EXCEPT !.frame = @ - 4 * r]

\* Generator.PrepCall(x) with the instructions' effect: the generator, the
\* item and the value r.  load(x) of a designator in the mode RegI reads the
\* procedure's address into x's register
PrepCallCode(g, x) ==
    Bind(IF x.Mode > ClassPar
         THEN [g |-> IF x.Mode = classRegI THEN [g EXCEPT !.R[x.r] = ProcToken(x.d)] ELSE g,
               x |-> [x EXCEPT !.Mode = classReg]]
         ELSE [g |-> g, x |-> x], LAMBDA l :
       [g |-> IF l.g.rh > 0 THEN [saveRegsCode(l.g, l.g.rh) EXCEPT !.rh = 0] ELSE l.g,
        x |-> l.x,
        r |-> l.g.rh])

\* what the called procedure leaves: the result in R0, if it is a function
Called(g, x) == [g EXCEPT !.R = [i \in 0 .. 15 |-> IF i = 0 /\ x.fn THEN ResToken(x.d) ELSE Junk]]

\* Generator.Call(x, r) with the instructions' effect: the generator, the
\* item, and the address the branch goes to (of a procedure that is no
\* constant)
CallCode(g, x, r) ==
    Bind(IF x.Mode = ClassConst THEN [g |-> g, r |-> r, to |-> ProcToken(x.d)]
         ELSE IF x.Mode <= ClassPar
         THEN Bind(loadValue(g, ProcToken(x.d)), LAMBDA g1 :
                 [g |-> [g1 EXCEPT !.rh = @ - 1], r |-> r, to |-> g1.R[g1.rh - 1]])
         ELSE Bind([AddSP(LdrSP(g, g.rh, 0), 1) EXCEPT !.frame = @ - 4], LAMBDA g1 :
                 [g |-> g1, r |-> r - 1, to |-> g1.R[g1.rh]]), LAMBDA b :
    Bind(Called(b.g, x), LAMBDA g2 :
       IF ~x.fn THEN [g |-> [g2 EXCEPT !.rh = 0], x |-> x, to |-> b.to]
       ELSE [g |-> [(IF b.r > 0 THEN restoreRegsCode([g2 EXCEPT !.R[b.r] = g2.R[0]], b.r) ELSE g2)
                       EXCEPT !.rh = b.r + 1],
             x |-> [x EXCEPT !.Mode = classReg, !.r = b.r],
             to |-> b.to]))

InitCall ==
    /\ InitScanner /\ InitNum /\ InitFold
    /\ orb = NewBase
    /\ prs = NewParser(FALSE)
    /\ peer = NewCompiler(FALSE)
    /\ fs = NoFiles
    /\ org = CallGenerator
    /\ drv = [mode |-> "call", n |-> 0, calls |-> <<>>, last |-> <<>>]

\* what the generator holds of the run-time state
CallSnap(g) == [rh |-> g.rh, frame |-> g.frame, R |-> g.R, stk |-> g.stk]

\* an operand of the expression, or a value parameter, is loaded
CallOperand ==
    /\ drv.mode = "call"
    /\ drv.n < MaxCallOps
    /\ org.rh < MaxCallRegs
    /\ org' = loadValue(org, ValToken(Len(drv.calls), org.rh))
    /\ drv' = [drv EXCEPT !.n = @ + 1]
    /\ UNCHANGED <<ors, orb, prs, peer, fs, num, fold>>

\* the designator of a procedure is read and PrepCall called: a declared
\* procedure, a procedure variable, or a procedure in an array or a record,
\* whose address selector has left in a register
CallPrepare ==
    /\ drv.mode = "call"
    /\ drv.n < MaxCallOps
    /\ Len(drv.calls) < MaxCallDepth
    /\ \E kind \in {ClassConst, ClassVar, classRegI}, fn \in BOOLEAN :
          /\ fn \/ (drv.calls = <<>> /\ org.rh = 0)
          /\ kind = classRegI => org.rh < MaxCallRegs
          /\ \E g \in {IF kind = classRegI THEN loadValue(org, ValToken(Len(drv.calls), org.rh))
                       ELSE org} :
             \E p \in {PrepCallCode(g, [Mode |-> kind, r |-> g.rh - 1, fn |-> fn,
                                        d |-> Len(drv.calls) + 1])} :
                /\ org' = p.g
                /\ drv' = [drv EXCEPT !.n = @ + 1,
                              !.calls = Append(@, [x |-> p.x, kind |-> kind, r |-> p.r,
                                                   before |-> CallSnap(g)])]
    /\ UNCHANGED <<ors, orb, prs, peer, fs, num, fold>>

\* the parameters are read and Call called
CallCall ==
    /\ drv.mode = "call"
    /\ drv.calls # <<>>
    /\ \E f \in {drv.calls[Len(drv.calls)]} :
       \E c \in {CallCode(org, f.x, f.r)} :
          /\ org' = c.g
          /\ drv' = [drv EXCEPT !.n = @ + 1,
                        !.calls = SubSeq(@, 1, Len(@) - 1),
                        !.last = <<[x |-> c.x, kind |-> f.kind, before |-> f.before,
                                    after |-> CallSnap(c.g), to |-> c.to]>>]
    /\ UNCHANGED <<ors, orb, prs, peer, fs, num, fold>>

NextCall ==
    \/ CallOperand
    \/ CallPrepare
    \/ CallCall

SpecCall == InitCall /\ [][NextCall]_vars

\* what the call f of a function has left, r registers being in use beside
\* the result: the frame offset and the stack of before PrepCall, the
\* values of the r registers, the result in register r, and rh = r + 1; a
\* procedure that is no constant is called at its address
CallLeaves(f, r) ==
    /\ f.after.frame = f.before.frame
    /\ f.after.stk = f.before.stk
    /\ \A i \in 0 .. r - 1 : f.after.R[i] = f.before.R[i]
    /\ f.after.R[r] = ResToken(f.x.d)
    /\ f.x.Mode = classReg /\ f.x.r = r
    /\ f.after.rh = r + 1
    /\ f.to = ProcToken(f.x.d)

\* C29 as claimed: for every call of a function, with r registers in use
\* just before PrepCall, the frame offset is afterwards what it was, the
\* saved registers hold their values again, the result is in register r and
\* rh = r + 1, whether the designator is a constant, a variable or held in
\* a register.
C29_AsClaimed ==
    drv.mode = "call" =>
       \A k \in 1 .. Len(drv.last) :
          drv.last[k].x.fn => CallLeaves(drv.last[k], drv.last[k].before.rh)

\* C29 amended: the same, but a designator held in a register is one of the
\* r registers in use before PrepCall and is given up by Call: the other
\* r - 1 registers hold their values again, the result is in register r - 1
\* and rh = r.
C29_CallFrame ==
    drv.mode = "call" =>
       \A k \in 1 .. Len(drv.last) :
          drv.last[k].x.fn =>
             CallLeaves(drv.last[k],
                        IF drv.last[k].kind = classRegI THEN drv.last[k].before.rh - 1
                        ELSE drv.last[k].before.rh)

\* v + a[i](w) with two registers in use before PrepCall, the second one
\* holding the designator: the result is in R1
C29_Witness ==
    /\ drv.mode = "call"
    /\ drv.last # <<>>
    /\ drv.last[1].x.fn
    /\ drv.last[1].kind = classRegI
    /\ drv.last[1].before.rh = 2
    /\ drv.last[1].after.rh = 2
    /\ drv.last[1].after.R[0] = ValToken(0, 0)
    /\ drv.last[1].after.R[1] = ResToken(1)
    /\ drv.last[1].after.stk = <<>>

(***************************************************************************)
(* The first error of a compilation.  Compile makes a new scanner and      *)
(* calls module(), which reads the first symbol; the texts here do not     *)
(* begin with MODULE, so module() marks that and returns.                  *)
(***************************************************************************)
symNull == 0
SymModule == 64

InitFirst ==
    /\ InitScanner /\ InitNum /\ InitFold
    /\ orb = NewBase
    /\ org = NewGenerator
    /\ prs = NewParser(FALSE)
    /\ peer = NewCompiler(FALSE)
    /\ fs = NoFiles
    /\ \E n \in 0 .. MaxFirstText : \E text \in TextsOf(n) :
          drv = [mode |-> "first", at |-> "module", text |-> text, sym |-> symNull,
                 first |-> <<>>]

\* what the sink holds of the calls of Mark
Written(s) == [n |-> s.sinkN, pos |-> s.sinkPos]

\* module() calls nextSym: Get reads the first symbol, and an unterminated
\* comment before it is marked
FirstSymbol ==
    /\ drv.mode = "first"
    /\ drv.at = "module"
    /\ \E r \in {Get(ors, drv.text)} :
          /\ ors' = r.s
          /\ drv' = [drv EXCEPT !.at = "symbol", !.sym = r.sym,
                                !.first = IF r.s.nMarks > 0 THEN <<Written(r.s)>> ELSE @]
    /\ UNCHANGED <<num, fold, orb, org, prs, peer, fs>>

\* the symbol is not MODULE: module() marks it, and Compile returns
FirstNoModule ==
    /\ drv.mode = "first"
    /\ drv.at = "symbol"
    /\ drv.sym # SymModule
    /\ \E s \in {Mark(ors, "must start with MODULE")} :
          /\ ors' = s
          /\ drv' = [drv EXCEPT !.at = "returned",
                                !.first = IF @ = <<>> THEN <<Written(s)>> ELSE @]
    /\ UNCHANGED <<num, fold, orb, org, prs, peer, fs>>

NextFirst ==
    \/ FirstSymbol
    \/ FirstNoModule

SpecFirst == InitFirst /\ [][NextFirst]_vars

\* C30 as claimed: when a compilation ends with an error count above 0, at
\* least one message was written to the sink, and the first call of Mark of
\* a compilation has written its message, wherever in the text it was made.
C30_AsClaimed ==
    drv.mode = "first" =>
       /\ drv.at = "returned" /\ ors.ErrCnt > 0 => ors.sinkN > 0
       /\ drv.first # <<>> => drv.first[1].n = 1

====
